---- MODULE Spec2Model ----
(***************************************************************************)
(* State-machine model of the Blood Bowl rules engine (src/engine):        *)
(* match state, legal-action enumerator, action resolver with its          *)
(* sub-resolvers, kickoff and the simulator's turn / half structure.       *)
(*                                                                         *)
(* Dice are nondeterministic.  Every resolver is an operator that maps a   *)
(* match state to the SET of results it can produce over all dice          *)
(* outcomes; a result is a record [s |-> match state, v |-> return value]. *)
(***************************************************************************)
EXTENDS Integers, Sequences, FiniteSets, TLC

VARIABLES
    state,   \* the GameState object
    sim,     \* locals of simulateGame: rosters, kickoff variant, decision count
    last     \* record of the step that produced the current state

vars == <<state, sim, last>>

(***************************************************************************)
(* Bounds of the model (not program constants)                             *)
(***************************************************************************)
\* decisions executed from a mid-half position
MaxSteps == 1
\* throw-ins that one ball resolution may chain through
MaxThrowIns == 1
\* sixes rolled by one pitch invasion
MaxInvasionStuns == 1
\* re-scatters of a thrown team-mate landing on occupied cells
MaxTtmScatters == 1

(***************************************************************************)
(* Grid & geometry (position.h, position.cpp)                              *)
(***************************************************************************)
PITCH_WIDTH == 26
PITCH_HEIGHT == 15

Pos(x, y) == [x |-> x, y |-> y]
OffGrid == Pos(-1, -1)

Abs(n) == IF n < 0 THEN -n ELSE n
Max2(a, b) == IF a > b THEN a ELSE b
Min2(a, b) == IF a < b THEN a ELSE b
clamp(v, lo, hi) == IF v < lo THEN lo ELSE IF v > hi THEN hi ELSE v
MinOf(S) == CHOOSE m \in S : \A n \in S : m <= n

posIsOnPitch(p) == p.x >= 0 /\ p.x < PITCH_WIDTH /\ p.y >= 0 /\ p.y < PITCH_HEIGHT

\* isInEndZone(home): home end zone is x = 0, away end zone is x = 25
isInEndZone(p, home) == IF home THEN p.x = 0 ELSE p.x = PITCH_WIDTH - 1

distanceTo(a, b) == Max2(Abs(a.x - b.x), Abs(a.y - b.y))

\* the 8 neighbours in the order Position::getAdjacent returns them
getAdjacent(p) ==
    << Pos(p.x - 1, p.y - 1), Pos(p.x, p.y - 1), Pos(p.x + 1, p.y - 1),
       Pos(p.x - 1, p.y),                        Pos(p.x + 1, p.y),
       Pos(p.x - 1, p.y + 1), Pos(p.x, p.y + 1), Pos(p.x + 1, p.y + 1) >>

\* compass directions clockwise from north (helpers.cpp)
compass ==
    << Pos(0, -1), Pos(1, -1), Pos(1, 0), Pos(1, 1),
       Pos(0, 1), Pos(-1, 1), Pos(-1, 0), Pos(-1, -1) >>

scatterDirection(d8) == compass[clamp(d8, 1, 8)]

D6 == 1..6
D8 == 1..8
TwoD6 == 2..12

(***************************************************************************)
(* Enumerations (enums.h)                                                  *)
(***************************************************************************)
opponent(side) == IF side = "HOME" THEN "AWAY" ELSE "HOME"

isOnPitch(st) == st \in {"STANDING", "PRONE", "STUNNED"}
canAct(st) == st = "STANDING"
exertsTacklezone(st) == st = "STANDING"

requiresPlayer(t) == t \notin {"END_TURN", "END_SETUP"}

weatherFromRoll(roll) ==
    IF roll <= 3 THEN "SWELTERING_HEAT"
    ELSE IF roll = 4 THEN "VERY_SUNNY"
    ELSE IF roll <= 10 THEN "NICE"
    ELSE IF roll = 11 THEN "POURING_RAIN"
    ELSE "BLIZZARD"

kickoffEventFromRoll(roll) ==
    CASE roll = 2 -> "GET_THE_REF"
      [] roll = 3 -> "RIOT"
      [] roll = 4 -> "PERFECT_DEFENCE"
      [] roll = 5 -> "HIGH_KICK"
      [] roll = 6 -> "CHEERING"
      [] roll = 7 -> "BRILLIANT_COACHING"
      [] roll = 8 -> "CHANGING_WEATHER"
      [] roll = 9 -> "QUICK_SNAP"
      [] roll = 10 -> "BLITZ"
      [] roll = 11 -> "THROW_A_ROCK"
      [] OTHER -> "PITCH_INVASION"

\* block die: 1 attacker down, 2 both down, 3-4 pushed, 5 stumbles, 6 defender down
rollBlockDie(roll) ==
    CASE roll = 1 -> "ATTACKER_DOWN"
      [] roll = 2 -> "BOTH_DOWN"
      [] roll \in {3, 4} -> "PUSHED"
      [] roll = 5 -> "DEFENDER_STUMBLES"
      [] OTHER -> "DEFENDER_DOWN"

BlockFaces == { rollBlockDie(r) : r \in D6 }

passRangeFromDistance(dist) ==
    IF dist <= 3 THEN 0 ELSE IF dist <= 6 THEN 1 ELSE IF dist <= 10 THEN 2 ELSE 3

\* QUICK +1, SHORT 0, LONG -1, BOMB -2
passModifier(range) == 1 - range

(***************************************************************************)
(* Rosters (roster.cpp)                                                    *)
(***************************************************************************)
T(ma, st, ag, av, skills, qty) ==
    [stats |-> [movement |-> ma, strength |-> st, agility |-> ag, armour |-> av],
     skills |-> skills, quantity |-> qty]

getHumanRoster ==
    [positionals |-> <<
        T(6, 3, 3, 8, {}, 16),
        T(8, 2, 3, 7, {"Catch", "Dodge"}, 4),
        T(6, 3, 3, 8, {"SureHands", "Pass"}, 2),
        T(7, 3, 3, 8, {"Block"}, 4),
        T(5, 5, 2, 9, {"Loner", "BoneHead", "MightyBlow", "ThickSkull", "ThrowTeamMate"}, 1) >>,
     hasApothecary |-> TRUE]

getDwarfRoster ==
    [positionals |-> <<
        T(4, 3, 2, 9, {"Block", "Tackle", "ThickSkull"}, 16),
        T(6, 3, 3, 8, {"SureHands", "ThickSkull"}, 2),
        T(5, 3, 3, 9, {"Block", "ThickSkull"}, 2),
        T(5, 3, 2, 8, {"Block", "Frenzy", "ThickSkull", "Dauntless"}, 2),
        T(4, 7, 1, 10, {"Loner", "BreakTackle", "DirtyPlayer", "Juggernaut", "MightyBlow",
                        "NoHands", "SecretWeapon", "StandFirm"}, 1) >>,
     hasApothecary |-> TRUE]

getDarkElfRoster ==
    [positionals |-> <<
        T(6, 3, 4, 8, {}, 16),
        T(7, 3, 4, 7, {"DumpOff"}, 2),
        T(6, 3, 4, 7, {"Stab", "Shadowing"}, 2),
        T(7, 3, 4, 8, {"Block"}, 4),
        T(7, 3, 4, 7, {"Dodge", "Frenzy", "JumpUp"}, 2) >>,
     hasApothecary |-> TRUE]

getVampireRoster ==
    [positionals |-> <<
        T(6, 3, 3, 7, {}, 16),
        T(6, 4, 4, 8, {"HypnoticGaze", "Regeneration", "Bloodlust"}, 4) >>,
     hasApothecary |-> TRUE]

getGoblinRoster ==
    [positionals |-> <<
        T(6, 2, 3, 7, {"Dodge", "RightStuff", "Stunty"}, 16),
        T(6, 2, 3, 7, {"Bombardier", "Dodge", "SecretWeapon", "Stunty"}, 1),
        T(6, 2, 3, 7, {"Chainsaw", "SecretWeapon", "Stunty"}, 1),
        T(3, 7, 3, 7, {"BallAndChain", "NoHands", "SecretWeapon", "Stunty"}, 1),
        T(7, 2, 3, 7, {"Dodge", "Leap", "VeryLongLegs", "Stunty"}, 1),
        T(4, 5, 1, 9, {"Loner", "AlwaysHungry", "MightyBlow", "ReallyStupid",
                       "Regeneration", "ThrowTeamMate"}, 2) >>,
     hasApothecary |-> TRUE]

getNurgleRoster ==
    [positionals |-> <<
        T(5, 3, 3, 8, {"Decay", "NurglesRot"}, 16),
        T(6, 3, 3, 8, {"Horns", "Regeneration", "NurglesRot"}, 4),
        T(4, 4, 2, 9, {"FoulAppearance", "Regeneration", "DisturbingPresence"}, 4),
        T(4, 5, 1, 9, {"Loner", "FoulAppearance", "MightyBlow", "NurglesRot", "Regeneration",
                       "Tentacles", "DisturbingPresence"}, 1) >>,
     hasApothecary |-> FALSE]

getBretonianRoster ==
    [positionals |-> <<
        T(6, 3, 3, 7, {}, 16),
        T(6, 3, 3, 8, {"Wrestle"}, 4),
        T(7, 3, 3, 8, {"Block", "Fend", "Catch"}, 4) >>,
     hasApothecary |-> TRUE]

getProElfRoster ==
    [positionals |-> <<
        T(6, 3, 4, 7, {}, 16),
        T(8, 3, 4, 7, {"NervesOfSteel", "Catch"}, 4),
        T(6, 3, 4, 7, {"Pass"}, 2),
        T(7, 3, 4, 8, {"Block", "SideStep"}, 2) >>,
     hasApothecary |-> TRUE]

getRosterByName(name) ==
    CASE name = "human" -> getHumanRoster
      [] name = "dwarf" -> getDwarfRoster
      [] name = "darkelf" -> getDarkElfRoster
      [] name = "vampire" -> getVampireRoster
      [] name = "goblin" -> getGoblinRoster
      [] name = "nurgle" -> getNurgleRoster
      [] name = "bretonnian" -> getBretonianRoster
      [] name = "proelf" -> getProElfRoster

(***************************************************************************)
(* Entity model (player.h, team_state.h, ball_state.h, game_state.h)       *)
(***************************************************************************)
Ids == 1..22
HomeIds == 1..11
AwayIds == 12..22

teamSide(id) == IF id <= 11 THEN "HOME" ELSE "AWAY"
TeamIds(side) == IF side = "HOME" THEN HomeIds ELSE AwayIds

\* Player{} as default-constructed. proAttempts is a history field the program
\* does not have: the Pro rerolls the figure has attempted since its side's
\* turn last started
Player ==
    [state |-> "OFF_PITCH", position |-> Pos(0, 0),
     stats |-> [movement |-> 0, strength |-> 0, agility |-> 0, armour |-> 0],
     skills |-> {}, movementRemaining |-> 0,
     hasMoved |-> FALSE, hasActed |-> FALSE, usedBlitz |-> FALSE,
     lostTacklezones |-> FALSE, proUsedThisTurn |-> FALSE, proAttempts |-> 0]

TeamState ==
    [score |-> 0, rerolls |-> 0, rerollUsedThisTurn |-> FALSE, turnNumber |-> 0,
     blitzUsedThisTurn |-> FALSE, passUsedThisTurn |-> FALSE, foulUsedThisTurn |-> FALSE,
     hasApothecary |-> FALSE, apothecaryUsed |-> FALSE]

\* canUseReroll that looks at the flag only
canUseReroll_FlagOnly(team) == ~team.rerollUsedThisTurn

canUseReroll(team) == team.rerolls > 0 /\ ~team.rerollUsedThisTurn

resetForNewTurn(team) ==
    [team EXCEPT !.rerollUsedThisTurn = FALSE, !.blitzUsedThisTurn = FALSE,
                 !.passUsedThisTurn = FALSE, !.foulUsedThisTurn = FALSE]

onGround(p) == [position |-> p, isHeld |-> FALSE, carrierId |-> -1]
carried(p, id) == [position |-> p, isHeld |-> TRUE, carrierId |-> id]
offPitch == [position |-> OffGrid, isHeld |-> FALSE, carrierId |-> -1]

\* GameState::GameState()
GameState ==
    [half |-> 1, phase |-> "COIN_TOSS", activeTeam |-> "HOME",
     homeTeam |-> TeamState, awayTeam |-> TeamState,
     players |-> [i \in Ids |-> Player],
     ball |-> offPitch, turnoverPending |-> FALSE,
     kickingTeam |-> "AWAY", weather |-> "NICE"]

getTeamState(s, side) == IF side = "HOME" THEN s.homeTeam ELSE s.awayTeam

setTeamState(s, side, team) ==
    IF side = "HOME" THEN [s EXCEPT !.homeTeam = team] ELSE [s EXCEPT !.awayTeam = team]

hasSkill(s, id, skill) == skill \in s.players[id].skills

playerIsOnPitch(s, id) == isOnPitch(s.players[id].state)

\* first figure, in array order, that is on the pitch at pos; 0 stands for nullptr
getPlayerAtPosition(s, pos) ==
    LET here == { i \in Ids : isOnPitch(s.players[i].state) /\ s.players[i].position = pos }
    IN IF here = {} THEN 0 ELSE MinOf(here)

playerCanAct(s, id) ==
    canAct(s.players[id].state) /\ ~s.players[id].hasActed /\ ~s.players[id].lostTacklezones

resetPlayersForNewTurn(s, side) ==
    [s EXCEPT !.players = [i \in Ids |->
        IF teamSide(i) # side THEN s.players[i]
        ELSE [s.players[i] EXCEPT
                !.state = IF @ = "STUNNED" THEN "PRONE" ELSE @,
                !.hasMoved = FALSE, !.hasActed = FALSE, !.usedBlitz = FALSE,
                !.lostTacklezones = FALSE, !.proUsedThisTurn = FALSE,
                !.proAttempts = 0,
                !.movementRemaining = s.players[i].stats.movement]]]

(***************************************************************************)
(* Set-up of a half (game_simulator.cpp)                                   *)
(***************************************************************************)
F(dx, y) == [dx |-> dx, y |-> y]

HOME_FORMATION ==
    << F(0, 5), F(0, 6), F(0, 7), F(0, 8),
       F(-1, 4), F(-1, 6), F(-1, 8), F(-1, 10),
       F(-3, 3), F(-3, 7), F(-3, 11) >>

AWAY_FORMATION ==
    << F(0, 5), F(0, 6), F(0, 7), F(0, 8),
       F(1, 4), F(1, 6), F(1, 8), F(1, 10),
       F(3, 3), F(3, 7), F(3, 11) >>

HOME_DEFENSIVE_FORMATION ==
    << F(0, 4), F(0, 7), F(0, 10),
       F(-1, 4), F(-1, 7), F(-1, 10),
       F(-2, 4), F(-2, 7), F(-2, 10),
       F(-5, 5), F(-5, 9) >>

AWAY_DEFENSIVE_FORMATION ==
    << F(0, 4), F(0, 7), F(0, 10),
       F(1, 4), F(1, 7), F(1, 10),
       F(2, 4), F(2, 7), F(2, 10),
       F(5, 5), F(5, 9) >>

RECURSIVE Repeat(_, _)
Repeat(x, n) == IF n <= 0 THEN << >> ELSE <<x>> \o Repeat(x, n - 1)

\* template indices of the specialists in placement order: each positional
\* t >= 1 (2.. here, sequences being 1-based) repeated min(quantity, 11) times
RECURSIVE placements(_, _)
placements(roster, t) ==
    IF t > Len(roster.positionals) THEN << >>
    ELSE Repeat(t, Min2(roster.positionals[t].quantity, 11)) \o placements(roster, t + 1)

\* template placed in formation slot 0..10: specialists fill from slot 10
\* downwards, linemen (template 1 here) take what is left
slotTemplate(roster, slot) ==
    LET specs == placements(roster, 2)
        k == 11 - slot
    IN IF k <= Len(specs) THEN roster.positionals[specs[k]] ELSE roster.positionals[1]

buildTeam(s, side, roster, formation) ==
    LET baseId == IF side = "HOME" THEN 1 ELSE 12
        baseLOS == IF side = "HOME" THEN 12 ELSE 13
        placed == [s EXCEPT !.players = [i \in Ids |->
            IF teamSide(i) # side THEN s.players[i]
            ELSE LET slot == i - baseId
                     tpl == slotTemplate(roster, slot)
                 IN [state |-> "STANDING",
                     position |-> Pos(baseLOS + formation[slot + 1].dx, formation[slot + 1].y),
                     stats |-> tpl.stats, skills |-> tpl.skills,
                     movementRemaining |-> tpl.stats.movement,
                     hasMoved |-> FALSE, hasActed |-> FALSE, usedBlitz |-> FALSE,
                     lostTacklezones |-> FALSE, proUsedThisTurn |-> FALSE,
                     proAttempts |-> s.players[i].proAttempts]]]
        ts == getTeamState(s, side)
    IN setTeamState(placed, side,
           resetForNewTurn([ts EXCEPT !.rerolls = 3, !.turnNumber = 0,
                                      !.hasApothecary = roster.hasApothecary,
                                      !.apothecaryUsed = FALSE]))

setupHalf(s, home, away, kickingTeam) ==
    LET cleared == [s EXCEPT !.players = [i \in Ids |->
            [s.players[i] EXCEPT !.state = "OFF_PITCH", !.position = OffGrid,
                                 !.hasMoved = FALSE, !.hasActed = FALSE, !.usedBlitz = FALSE,
                                 !.lostTacklezones = FALSE, !.proUsedThisTurn = FALSE]]]
        homeForm == IF kickingTeam = "HOME" THEN HOME_DEFENSIVE_FORMATION ELSE HOME_FORMATION
        awayForm == IF kickingTeam = "AWAY" THEN AWAY_DEFENSIVE_FORMATION ELSE AWAY_FORMATION
        built == buildTeam(buildTeam(cleared, "HOME", home, homeForm), "AWAY", away, awayForm)
        safety == (IF kickingTeam = "HOME" THEN 1 ELSE 12) + 10
        kicker == IF playerIsOnPitch(built, safety)
                  THEN [built EXCEPT !.players[safety].skills = @ \cup {"Kick"}]
                  ELSE built
    IN [kicker EXCEPT !.ball = offPitch, !.turnoverPending = FALSE]

hasKickPlayer(s, kickingTeam) ==
    \E i \in TeamIds(kickingTeam) :
        /\ playerIsOnPitch(s, i)
        /\ s.players[i].state = "STANDING"
        /\ hasSkill(s, i, "Kick")

(***************************************************************************)
(* Turn handler (turn_handler.cpp)                                         *)
(***************************************************************************)
\* resolveEndTurn with the ejected staying where they stood
resolveEndTurn_KeepsPosition(s) ==
    LET current == s.activeTeam
        ejected == [s EXCEPT !.players = [i \in Ids |->
            IF teamSide(i) = current /\ isOnPitch(s.players[i].state)
               /\ "SecretWeapon" \in s.players[i].skills
            THEN [s.players[i] EXCEPT !.state = "EJECTED"]
            ELSE s.players[i]]]
        switched == [ejected EXCEPT !.activeTeam = opponent(current)]
        newSide == opponent(current)
        counted == setTeamState(switched, newSide,
                       [getTeamState(switched, newSide) EXCEPT !.turnNumber = @ + 1])
        reset == resetPlayersForNewTurn(counted, newSide)
        fresh == setTeamState(reset, newSide, resetForNewTurn(getTeamState(reset, newSide)))
    IN [fresh EXCEPT !.turnoverPending = FALSE]

\* resolveEndTurn without the switch of the active team
resolveEndTurn_NoSwitch(s) ==
    LET current == s.activeTeam
        ejected == [s EXCEPT !.players = [i \in Ids |->
            IF teamSide(i) = current /\ isOnPitch(s.players[i].state)
               /\ "SecretWeapon" \in s.players[i].skills
            THEN [s.players[i] EXCEPT !.state = "EJECTED", !.position = OffGrid]
            ELSE s.players[i]]]
        newSide == opponent(current)
        counted == setTeamState(ejected, newSide,
                       [getTeamState(ejected, newSide) EXCEPT !.turnNumber = @ + 1])
        reset == resetPlayersForNewTurn(counted, newSide)
        fresh == setTeamState(reset, newSide, resetForNewTurn(getTeamState(reset, newSide)))
    IN [fresh EXCEPT !.turnoverPending = FALSE]

resolveEndTurn(s) ==
    LET current == s.activeTeam
        ejected == [s EXCEPT !.players = [i \in Ids |->
            IF teamSide(i) = current /\ isOnPitch(s.players[i].state)
               /\ "SecretWeapon" \in s.players[i].skills
            THEN [s.players[i] EXCEPT !.state = "EJECTED", !.position = OffGrid]
            ELSE s.players[i]]]
        switched == [ejected EXCEPT !.activeTeam = opponent(current)]
        newSide == opponent(current)
        counted == setTeamState(switched, newSide,
                       [getTeamState(switched, newSide) EXCEPT !.turnNumber = @ + 1])
        reset == resetPlayersForNewTurn(counted, newSide)
        fresh == setTeamState(reset, newSide, resetForNewTurn(getTeamState(reset, newSide)))
    IN [fresh EXCEPT !.turnoverPending = FALSE]

checkTouchdown(s) ==
    IF ~s.ball.isHeld THEN FALSE
    ELSE LET carrier == s.players[s.ball.carrierId]
         IN IF carrier.state # "STANDING" THEN FALSE
            ELSE IF teamSide(s.ball.carrierId) = "HOME"
                 THEN isInEndZone(carrier.position, FALSE)
                 ELSE isInEndZone(carrier.position, TRUE)

\* checkHalfOver that takes the 8th turn for the end of the half
checkHalfOver_AtEight(s) == getTeamState(s, s.activeTeam).turnNumber >= 8

checkHalfOver(s) == getTeamState(s, s.activeTeam).turnNumber > 8

(***************************************************************************)
(* Helpers (helpers.cpp)                                                   *)
(***************************************************************************)
\* results of a resolver: match state plus return value
R(s, v) == [s |-> s, v |-> v]
Bind(S, K(_)) == UNION { K(o) : o \in S }

\* Let(e, K) is K(e): the value e under the name K gives it
Let(e, K(_)) == K(e)

\* The resolvers reach one another through call, defined after the last of
\* them: call("f", <<a, b>>) is f(a, b).
RECURSIVE call(_, _)

SeqToSet(q) == { q[i] : i \in 1..Len(q) }
AdjSet(p) == { a \in SeqToSet(getAdjacent(p)) : posIsOnPitch(a) }

\* outcomes of comparing one D6 with a target number
RollOK(target) == { r >= target : r \in D6 }

\* an opposing figure at apos that exerts a tackle zone
exertsZoneAt(s, apos, friendlySide, excludeId) ==
    LET p == getPlayerAtPosition(s, apos)
    IN /\ p # 0
       /\ teamSide(p) # friendlySide
       /\ p # excludeId
       /\ exertsTacklezone(s.players[p].state)
       /\ ~s.players[p].lostTacklezones

countTacklezones(s, pos, friendlySide, excludeId) ==
    Cardinality({ apos \in AdjSet(pos) : exertsZoneAt(s, apos, friendlySide, excludeId) })

countDisturbingPresence(s, pos, friendlySide) ==
    Cardinality({ i \in TeamIds(opponent(friendlySide)) :
        /\ playerIsOnPitch(s, i)
        /\ hasSkill(s, i, "DisturbingPresence")
        /\ distanceTo(s.players[i].position, pos) <= 3 })

calculateDodgeTarget(s, id, dest, source) ==
    LET pl == s.players[id]
        side == teamSide(id)
        ag == IF "BreakTackle" \in pl.skills /\ pl.stats.strength > pl.stats.agility
              THEN pl.stats.strength ELSE pl.stats.agility
        opps == { apos \in AdjSet(source) : exertsZoneAt(s, apos, side, -1) }
        oppHas(sk) == { apos \in opps : hasSkill(s, getPlayerAtPosition(s, apos), sk) }
        target == 7 - ag
                  + countTacklezones(s, dest, side, -1)
                  - (IF "Dodge" \in pl.skills /\ oppHas("Tackle") = {} THEN 1 ELSE 0)
                  - (IF "Stunty" \in pl.skills THEN 1 ELSE 0)
                  - (IF "Titchy" \in pl.skills THEN 1 ELSE 0)
                  - (IF "TwoHeads" \in pl.skills THEN 1 ELSE 0)
                  + Cardinality(oppHas("PrehensileTail"))
                  + (IF oppHas("DivingTackle") # {} THEN 2 ELSE 0)
    IN clamp(target, 2, 6)

calculatePickupTarget(s, id) ==
    LET pl == s.players[id]
        target == 6 - pl.stats.agility
                  + (IF "BigHand" \notin pl.skills
                     THEN countTacklezones(s, pl.position, teamSide(id), -1)
                          + (IF s.weather = "POURING_RAIN" THEN 1 ELSE 0)
                     ELSE 0)
                  - (IF "ExtraArms" \in pl.skills THEN 1 ELSE 0)
    IN clamp(target, 2, 6)

calculateCatchTarget(s, id, modifier) ==
    LET pl == s.players[id]
        target == 7 - pl.stats.agility - modifier
                  + (IF "NervesOfSteel" \notin pl.skills
                     THEN countTacklezones(s, pl.position, teamSide(id), -1) ELSE 0)
                  + countDisturbingPresence(s, pl.position, teamSide(id))
                  - (IF "ExtraArms" \in pl.skills THEN 1 ELSE 0)
                  - (IF "DivingCatch" \in pl.skills THEN 1 ELSE 0)
                  + (IF s.weather = "POURING_RAIN" THEN 1 ELSE 0)
    IN clamp(target, 2, 6)

countAssists(s, targetPos, assistingSide, excludeId1, excludeId2, tzExcludeId) ==
    Cardinality({ apos \in AdjSet(targetPos) :
        LET p == getPlayerAtPosition(s, apos)
        IN /\ p # 0
           /\ teamSide(p) = assistingSide
           /\ p # excludeId1 /\ p # excludeId2
           /\ canAct(s.players[p].state)
           /\ ~s.players[p].lostTacklezones
           /\ \/ hasSkill(s, p, "Guard")
              \/ countTacklezones(s, s.players[p].position, assistingSide, tzExcludeId) = 0 })

getBlockDiceInfo(attST, defST) ==
    IF attST > 2 * defST THEN [count |-> 3, attackerChooses |-> TRUE]
    ELSE IF attST > defST THEN [count |-> 2, attackerChooses |-> TRUE]
    ELSE IF attST = defST THEN [count |-> 1, attackerChooses |-> TRUE]
    ELSE IF defST > 2 * attST THEN [count |-> 3, attackerChooses |-> FALSE]
    ELSE [count |-> 2, attackerChooses |-> FALSE]

sign(n) == IF n > 0 THEN 1 ELSE IF n < 0 THEN -1 ELSE 0

\* straight, clockwise 45 and counter-clockwise 45, on-pitch ones only, in that order
getPushbackSquares(attackerPos, defenderPos) ==
    LET d == Pos(sign(defenderPos.x - attackerPos.x), sign(defenderPos.y - attackerPos.y))
        found == { i \in 0..7 : compass[i + 1] = d }
        idx == IF found = {} THEN 0 ELSE MinOf(found)
        sq(k) == Pos(defenderPos.x + compass[(k % 8) + 1].x,
                     defenderPos.y + compass[(k % 8) + 1].y)
        onp(p) == posIsOnPitch(p)
    IN SelectSeq(<< sq(idx), sq(idx + 1), sq(idx + 7) >>, onp)

\* a Pro reroll is attempted and the figure's flag is left as it was
markProUsed_Unmarked(s, id) == [s EXCEPT !.players[id].proAttempts = @ + 1]

\* a Pro reroll is attempted: the flag is set before the Pro die is rolled
markProUsed(s, id) ==
    [s EXCEPT !.players[id].proUsedThisTurn = TRUE, !.players[id].proAttempts = @ + 1]

spendReroll(s, side) ==
    setTeamState(s, side, [getTeamState(s, side) EXCEPT !.rerolls = @ - 1,
                                                         !.rerollUsedThisTurn = TRUE])

\* roll, then skill reroll, then Pro, then team reroll behind the Loner gate
attemptRoll(s, id, target, skillReroll, skillNegatedByOpponent, canUseTeamReroll) ==
    LET hit(x) == IF TRUE \in RollOK(target) THEN { R(x, TRUE) } ELSE {}
        missPossible == FALSE \in RollOK(target)
        teamStage(x) ==
            IF canUseTeamReroll /\ canUseReroll(getTeamState(x, teamSide(id)))
            THEN LET x2 == spendReroll(x, teamSide(id))
                 IN (IF hasSkill(x, id, "Loner") THEN { R(x2, FALSE) } ELSE {})
                    \cup { R(x2, b) : b \in RollOK(target) }
            ELSE { R(x, FALSE) }
        proStage(x) ==
            IF hasSkill(x, id, "Pro") /\ ~x.players[id].proUsedThisTurn
            THEN LET x1 == markProUsed(x, id)
                 IN hit(x1) \cup teamStage(x1)
            ELSE teamStage(x)
        skillStage(x) ==
            IF skillReroll # "" /\ hasSkill(x, id, skillReroll) /\ ~skillNegatedByOpponent
            THEN hit(x) \cup (IF missPossible THEN proStage(x) ELSE {})
            ELSE proStage(x)
    IN hit(s) \cup (IF missPossible THEN skillStage(s) ELSE {})

(***************************************************************************)
(* Injuries (injury.h, injury.cpp)                                         *)
(***************************************************************************)
InjuryContext ==
    [armourModifier |-> 0, injuryModifier |-> 0, hasClaw |-> FALSE,
     hasStakes |-> FALSE, hasDecay |-> FALSE, hasNurglesRot |-> FALSE]

removeFromPitch(s, id, st) ==
    [s EXCEPT !.players[id].state = st, !.players[id].position = OffGrid]

\* every state the injury roll can leave behind
resolveInjuryRoll(s, id, ctx) ==
    LET first == { r + ctx.injuryModifier : r \in TwoD6 }
        rolls == IF ctx.hasDecay
                 THEN { Max2(a, b) : a \in first, b \in { r + ctx.injuryModifier : r \in TwoD6 } }
                 ELSE first
        stunned == [s EXCEPT !.players[id].state = "STUNNED"]
        outcome(roll) ==
            LET injuryRoll == roll + (IF hasSkill(s, id, "Stunty") THEN 1 ELSE 0)
            IN IF injuryRoll <= 7 THEN { stunned }
               ELSE IF injuryRoll <= 9
                    THEN (IF hasSkill(s, id, "ThickSkull") THEN { stunned } ELSE {})
                         \cup { removeFromPitch(s, id, "KO") }
                    ELSE (IF hasSkill(s, id, "Regeneration") /\ ~ctx.hasStakes
                          THEN { stunned } ELSE {})
                         \cup { removeFromPitch(s, id, "INJURED") }
    IN UNION { outcome(roll) : roll \in rolls }

resolveArmourAndInjury(s, id, ctx) ==
    LET av == s.players[id].stats.armour
        broken(armourRoll) ==
            IF ctx.hasClaw THEN armourRoll >= 8 \/ armourRoll > av ELSE armourRoll > av
        verdicts == { broken(r + ctx.armourModifier) : r \in TwoD6 }
    IN (IF TRUE \in verdicts THEN { R(x, TRUE) : x \in call("resolveInjuryRoll", <<s, id, ctx>>) } ELSE {})
       \cup (IF FALSE \in verdicts THEN { R(s, FALSE) } ELSE {})

\* the crowd's injury roll with nothing done afterwards
resolveCrowdSurf_AsRolled(s, id) ==
    call("resolveInjuryRoll", <<s, id, [InjuryContext EXCEPT !.injuryModifier = 1]>>)

resolveCrowdSurf(s, id) ==
    LET ctx == [InjuryContext EXCEPT !.injuryModifier = 1,
                                     !.hasDecay = hasSkill(s, id, "Decay")]
    IN { IF isOnPitch(x.players[id].state) THEN removeFromPitch(x, id, "KO") ELSE x :
            x \in call("resolveInjuryRoll", <<s, id, ctx>>) }

(***************************************************************************)
(* Ball handler (ball_handler.cpp)                                         *)
(***************************************************************************)
resolvePickup(s, id) ==
    IF hasSkill(s, id, "NoHands") THEN { R(s, FALSE) }
    ELSE { IF o.v THEN R([o.s EXCEPT !.ball = carried(o.s.players[id].position, id)], TRUE)
                  ELSE o :
             o \in call("attemptRoll", <<s, id, calculatePickupTarget(s, id), "SureHands", FALSE, TRUE>>) }

resolveCatch(s, catcherId, modifier) ==
    IF hasSkill(s, catcherId, "NoHands") THEN { R(s, FALSE) }
    ELSE { IF o.v THEN R([o.s EXCEPT !.ball = carried(o.s.players[catcherId].position,
                                                      catcherId)], TRUE)
                  ELSE o :
             o \in call("attemptRoll", <<s, catcherId, calculateCatchTarget(s, catcherId, modifier),
                               "Catch", FALSE, TRUE>>) }


\* One step of the ball's flight: rest = TRUE when the ball has come to rest in
\* s, FALSE when it still has to bounce from `from` at the given depth.
\* fuel: throw-ins this resolution may still go through (the code has no such limit)
Flight(rest, s, from, depth, fuel) ==
    [rest |-> rest, s |-> s, from |-> from, depth |-> depth, fuel |-> fuel]

\* the ball comes down at dest: a figure able to act there tries to catch it, and
\* a missed catch bounces on at nextDepth; otherwise the ball rests there
landOutcomes(s, dest, nextDepth, fuel) ==
    LET p == getPlayerAtPosition(s, dest)
        down == [s EXCEPT !.ball = onGround(dest)]
    IN IF p # 0 /\ canAct(s.players[p].state)
       THEN { Flight(o.v, o.s, dest, nextDepth, fuel) :
              o \in call("resolveCatch", <<down, p, 0>>) }
       ELSE { Flight(TRUE, down, dest, nextDepth, fuel) }

throwInOutcomes(s, lastOnPitch, fuel) ==
    IF fuel = 0 THEN {}
    ELSE LET raws == { Pos(lastOnPitch.x + scatterDirection(d8).x * distance,
                           lastOnPitch.y + scatterDirection(d8).y * distance) :
                         d8 \in D8, distance \in TwoD6 }
             dests == { IF posIsOnPitch(raw) THEN raw
                        ELSE Pos(clamp(raw.x, 0, PITCH_WIDTH - 1),
                                 clamp(raw.y, 0, PITCH_HEIGHT - 1)) : raw \in raws }
         IN UNION { landOutcomes(s, dest, 0, fuel - 1) : dest \in dests }

bounceOutcomes(s, from, depth, fuel) ==
    IF depth > 5 THEN { Flight(TRUE, [s EXCEPT !.ball = onGround(from)], from, depth, fuel) }
    ELSE LET dests == { Pos(from.x + scatterDirection(d8).x, from.y + scatterDirection(d8).y) :
                          d8 \in D8 }
         IN (IF \E dest \in dests : ~posIsOnPitch(dest)
             THEN throwInOutcomes(s, from, fuel) ELSE {})
            \cup UNION { landOutcomes(s, dest, depth + 1, fuel) :
                         dest \in { d \in dests : posIsOnPitch(d) } }

\* every flight is followed until the ball rests; equal flights are followed once
RECURSIVE settle(_, _)
settle(flights, rested) ==
    LET flying == { f \in flights : ~f.rest }
        landed == rested \cup { f.s : f \in flights \ flying }
    IN IF flying = {} THEN landed
       ELSE settle(UNION { bounceOutcomes(f.s, f.from, f.depth, f.fuel) : f \in flying },
                   landed)

landAt(s, dest, nextDepth, fuel) == settle(landOutcomes(s, dest, nextDepth, fuel), {})

resolveBounce(s, from, depth, fuel) == settle({ Flight(FALSE, s, from, depth, fuel) }, {})

resolveThrowIn(s, lastOnPitch, fuel) == settle(throwInOutcomes(s, lastOnPitch, fuel), {})

handleBallOnPlayerDown(s, id) ==
    IF ~s.ball.isHeld \/ s.ball.carrierId # id THEN { s }
    ELSE LET pos == s.players[id].position
         IN call("resolveBounce", <<[s EXCEPT !.ball = onGround(pos)], pos, 0, MaxThrowIns>>)

(***************************************************************************)
(* Movement (move_handler.cpp)                                             *)
(***************************************************************************)
\* first opposing figure, in adjacency order around pos, that stands with its
\* tackle zone intact and has the skill; 0 if there is none
firstAdjacentOpponentWith(s, pos, side, skill) ==
    LET adj == getAdjacent(pos)
        hits == { i \in 1..8 :
                    /\ posIsOnPitch(adj[i])
                    /\ LET opp == getPlayerAtPosition(s, adj[i])
                       IN /\ opp # 0
                          /\ teamSide(opp) # side
                          /\ canAct(s.players[opp].state)
                          /\ ~s.players[opp].lostTacklezones
                          /\ hasSkill(s, opp, skill) }
    IN IF hits = {} THEN 0 ELSE getPlayerAtPosition(s, adj[MinOf(hits)])

\* v = TRUE: the mover is caught and stays at from
checkTentacles(s, id, from) ==
    LET opp == firstAdjacentOpponentWith(s, from, teamSide(id), "Tentacles")
    IN IF opp = 0 THEN { R(s, FALSE) }
       ELSE LET escapes == { (m + s.players[id].stats.strength)
                              > (t + s.players[opp].stats.strength) : m \in D6, t \in D6 }
            IN (IF TRUE \in escapes THEN { R(s, FALSE) } ELSE {})
               \cup (IF FALSE \in escapes
                     THEN { R([s EXCEPT !.players[id].hasMoved = TRUE], TRUE) } ELSE {})

checkShadowing(s, id, from) ==
    LET opp == firstAdjacentOpponentWith(s, from, teamSide(id), "Shadowing")
    IN IF opp = 0 THEN { s }
       ELSE LET follows == { roll + s.players[opp].stats.movement
                                  - s.players[id].stats.movement >= 6 : roll \in D6 }
            IN (IF FALSE \in follows THEN { s } ELSE {})
               \cup (IF TRUE \in follows
                     THEN { IF getPlayerAtPosition(s, from) = 0
                            THEN [s EXCEPT !.players[opp].position = from]
                            ELSE s }
                     ELSE {})

\* the mover falls at the destination: armour, injury, ball drop, turnover
\* a fall that ends the turn in the handler
fallAt_EndsTurn(s, id, to) ==
    LET down == [s EXCEPT !.players[id].position = to,
                          !.players[id].state = "PRONE",
                          !.players[id].hasActed = TRUE]
    IN Bind(call("resolveArmourAndInjury", <<down, id, InjuryContext>>),
            LAMBDA o : { R(resolveEndTurn(x), "turnover") :
                         x \in call("handleBallOnPlayerDown", <<o.s, id>>) })

fallAt(s, id, to) ==
    LET down == [s EXCEPT !.players[id].position = to,
                          !.players[id].state = "PRONE",
                          !.players[id].hasActed = TRUE]
    IN Bind(call("resolveArmourAndInjury", <<down, id, InjuryContext>>),
            LAMBDA o : { R(x, "turnover") : x \in call("handleBallOnPlayerDown", <<o.s, id>>) })

resolveMoveStep(s, id, to) ==
    LET from == s.players[id].position
        side == teamSide(id)
        arrive(x, needsDodge) ==
            LET moved == [x EXCEPT !.players[id].position = to]
                withBall == [moved EXCEPT !.ball.position =
                                IF moved.ball.isHeld /\ moved.ball.carrierId = id THEN to ELSE @]
            IN Bind(IF needsDodge THEN checkShadowing(withBall, id, from) ELSE { withBall },
                    LAMBDA y :
                       IF ~y.ball.isHeld /\ y.ball.position = to
                       THEN { IF o.v THEN R(o.s, "ok")
                              ELSE R([o.s EXCEPT !.players[id].hasActed = TRUE], "turnover") :
                              o \in resolvePickup(y, id) }
                       ELSE { R(y, "ok") })
        gfiStage(x, needsGfi, needsDodge) ==
            Bind(IF needsGfi
                 THEN call("attemptRoll", <<x, id, IF x.weather = "BLIZZARD" THEN 3 ELSE 2,
                                            "SureFeet", FALSE, TRUE>>)
                 ELSE { R(x, TRUE) },
                 LAMBDA o : IF o.v THEN arrive(o.s, needsDodge)
                            ELSE call("fallAt", <<o.s, id, to>>))
        dodgeStage(x, needsGfi, needsDodge) ==
            Bind(IF needsDodge
                 THEN call("attemptRoll",
                           <<x, id, calculateDodgeTarget(x, id, to, from), "Dodge",
                             firstAdjacentOpponentWith(x, from, side, "Tackle") # 0, TRUE>>)
                 ELSE { R(x, TRUE) },
                 LAMBDA o : IF o.v THEN gfiStage(o.s, needsGfi, needsDodge)
                            ELSE call("fallAt", <<o.s, id, to>>))
        afterTentacles(x, mr, needsDodge) ==
            IF mr < 0 /\ mr < (IF hasSkill(x, id, "Sprint") THEN -3 ELSE -2)
            THEN { R([x EXCEPT !.players[id].hasMoved = TRUE], "fail") }
            ELSE dodgeStage([x EXCEPT !.players[id].movementRemaining = mr,
                                      !.players[id].hasMoved = TRUE], mr < 0, needsDodge)
        step(needsDodge) ==
            Bind(IF needsDodge THEN checkTentacles(s, id, from) ELSE { R(s, FALSE) },
                 LAMBDA o : IF o.v THEN { R(o.s, "ok") }
                            ELSE afterTentacles(o.s, o.s.players[id].movementRemaining - 1,
                                                needsDodge))
    IN IF distanceTo(from, to) # 1 \/ ~posIsOnPitch(to) \/ getPlayerAtPosition(s, to) # 0
       THEN { R(s, "fail") }
       ELSE step(countTacklezones(s, from, side, -1) > 0)

resolveStandUp(s, id) ==
    IF s.players[id].state # "PRONE" THEN { R(s, "fail") }
    ELSE IF hasSkill(s, id, "JumpUp")
         THEN { R([s EXCEPT !.players[id].state = "STANDING"], "ok") }
         ELSE IF s.players[id].movementRemaining < 3 THEN { R(s, "fail") }
              ELSE { R([s EXCEPT !.players[id].movementRemaining = @ - 3,
                                 !.players[id].state = "STANDING"], "ok") }

(***************************************************************************)
(* Blocks (block_handler.cpp)                                              *)
(***************************************************************************)
scoreFace(face, attHasBlock, defHasBlock, defHasDodge, attHasTackle) ==
    CASE face = "DEFENDER_DOWN" -> 10
      [] face = "DEFENDER_STUMBLES" -> IF defHasDodge /\ ~attHasTackle THEN 5 ELSE 9
      [] face = "PUSHED" -> 5
      [] face = "BOTH_DOWN" ->
            IF attHasBlock /\ ~defHasBlock THEN 8
            ELSE IF attHasBlock /\ defHasBlock THEN 4
            ELSE IF ~attHasBlock /\ defHasBlock THEN 1
            ELSE 3
      [] OTHER -> 0

\* the first die with the best score for whoever chooses
autoChooseBlockDie(faces, attackerChooses, s, att, def) ==
    LET score(i) == scoreFace(faces[i], hasSkill(s, att, "Block"), hasSkill(s, def, "Block"),
                              hasSkill(s, def, "Dodge"), hasSkill(s, att, "Tackle"))
        idxs == 1..Len(faces)
        best == IF attackerChooses
                THEN CHOOSE b \in { score(i) : i \in idxs } : \A i \in idxs : score(i) <= b
                ELSE CHOOSE b \in { score(i) : i \in idxs } : \A i \in idxs : score(i) >= b
    IN faces[MinOf({ i \in idxs : score(i) = best })]

shouldRerollBlock(face, s, att) ==
    \/ face = "ATTACKER_DOWN"
    \/ face = "BOTH_DOWN" /\ ~hasSkill(s, att, "Block")

\* the faces one roll of the block dice can end on, after the Juggernaut conversion
rollAndChoose(s, att, def, diceInfo, isBlitz) ==
    { LET chosen == autoChooseBlockDie(faces, diceInfo.attackerChooses, s, att, def)
      IN IF chosen = "BOTH_DOWN" /\ isBlitz /\ hasSkill(s, att, "Juggernaut")
         THEN "PUSHED" ELSE chosen :
      faces \in [1..diceInfo.count -> BlockFaces] }

\* the chosen face after the Pro / team reroll of a bad result
rollBlockDice(s, att, def, diceInfo, isBlitz) ==
    LET rolls == rollAndChoose(s, att, def, diceInfo, isBlitz)
        teamStage(x, c) ==
            IF canUseReroll(getTeamState(x, teamSide(att)))
            THEN LET x2 == spendReroll(x, teamSide(att))
                 IN (IF hasSkill(x, att, "Loner") THEN { R(x2, c) } ELSE {})
                    \cup { R(x2, c2) : c2 \in rolls }
            ELSE { R(x, c) }
        proStage(x, c) ==
            IF hasSkill(x, att, "Pro") /\ ~x.players[att].proUsedThisTurn
            THEN LET x1 == markProUsed(x, att)
                 IN { R(x1, c2) : c2 \in rolls } \cup teamStage(x1, c)
            ELSE teamStage(x, c)
    IN UNION { IF shouldRerollBlock(c, s, att) THEN proStage(s, c) ELSE { R(s, c) } :
               c \in rolls }

firstEmpty(s, squares) ==
    LET empty == { i \in 1..Len(squares) : getPlayerAtPosition(s, squares[i]) = 0 }
    IN IF empty = {} THEN 1 ELSE MinOf(empty)

\* first index whose key is the largest
firstMax(n, key(_)) ==
    MinOf({ i \in 1..n : \A j \in 1..n : key(j) <= key(i) })

\* v = [crowdSurf, pushDest]
resolvePushback(s, att, def, isBlitz) ==
    LET attacker == s.players[att]
        defender == s.players[def]
        grab == hasSkill(s, att, "Grab") /\ ~isBlitz
        chooseIdx(pushSquares) ==
            LET edgeScore(i) ==
                    100 - Min2(Min2(pushSquares[i].x, PITCH_WIDTH - 1 - pushSquares[i].x),
                               Min2(pushSquares[i].y, PITCH_HEIGHT - 1 - pushSquares[i].y))
                away(i) == distanceTo(pushSquares[i], attacker.position)
            IN IF hasSkill(s, def, "SideStep") /\ ~grab THEN firstMax(Len(pushSquares), away)
               ELSE IF grab THEN firstMax(Len(pushSquares), edgeScore)
               ELSE firstEmpty(s, pushSquares)
        moveTo(x, id, dest) ==
            [x EXCEPT !.players[id].position = dest,
                      !.ball.position = IF x.ball.isHeld /\ x.ball.carrierId = id
                                        THEN dest ELSE @]
        chainPush(occupant, chainSquares) ==
            IF Len(chainSquares) = 0
            THEN Bind(call("handleBallOnPlayerDown", <<s, occupant>>),
                      LAMBDA x : call("resolveCrowdSurf", <<x, occupant>>))
            ELSE { moveTo(s, occupant, chainSquares[firstEmpty(s, chainSquares)]) }
        chained(occupant) ==
            IF occupant = 0 THEN { s }
            ELSE chainPush(occupant, getPushbackSquares(defender.position,
                                                        s.players[occupant].position))
        pushed(pushDest) ==
            { IF ~posIsOnPitch(pushDest)
              THEN R(x, [crowdSurf |-> TRUE, pushDest |-> pushDest])
              ELSE R(moveTo(x, def, pushDest), [crowdSurf |-> FALSE, pushDest |-> pushDest]) :
              x \in chained(getPlayerAtPosition(s, pushDest)) }
        pushInto(pushSquares) ==
            IF Len(pushSquares) = 0
            THEN { R(s, [crowdSurf |-> TRUE, pushDest |-> OffGrid]) }
            ELSE pushed(pushSquares[chooseIdx(pushSquares)])
    IN IF hasSkill(s, def, "StandFirm") /\ ~(isBlitz /\ hasSkill(s, att, "Juggernaut"))
       THEN { R(s, [crowdSurf |-> FALSE, pushDest |-> defender.position]) }
       ELSE pushInto(getPushbackSquares(attacker.position, defender.position))

\* armour roll, injury if broken, then the ball comes loose if id held it
armourThenBall(s, id, ctx) ==
    Bind(call("resolveArmourAndInjury", <<s, id, ctx>>), LAMBDA o : call("handleBallOnPlayerDown", <<o.s, id>>))

acted(s, id) == [s EXCEPT !.players[id].hasActed = TRUE]

followUp(s, att, defOldPos) ==
    LET moved == [s EXCEPT !.players[att].position = defOldPos]
    IN IF moved.ball.isHeld /\ moved.ball.carrierId = att
       THEN [moved EXCEPT !.ball.position = defOldPos] ELSE moved

BlockParams == [attackerId |-> -1, targetId |-> -1, isBlitz |-> FALSE, hornsBonus |-> FALSE]

\* one call of resolveBlock as far as its Frenzy test: a result "end ok" or
\* "end turnover" says that the call came to the test, and with what verdict;
\* any other result is what an earlier return gave
blockOnce(s, params, noFollowUp) ==
    LET att == params.attackerId
        def == params.targetId
        defOldPos == s.players[def].position
        verdict(turnover) == IF turnover THEN "turnover" ELSE "ok"
        \* pushback, crowd surf, strip ball, follow-up, knock-down, frenzy
        pushStage(x, defKnockedDown, attKnockedDown) ==
            Bind(call("resolvePushback", <<x, att, def, params.isBlitz>>), LAMBDA o :
                IF o.v.crowdSurf
                THEN LET surfed == Bind(call("handleBallOnPlayerDown", <<o.s, def>>), LAMBDA y :
                                        call("resolveCrowdSurf", <<[y EXCEPT !.players[def].position
                                                                      = OffGrid], def>>))
                         followed == { acted(IF ~noFollowUp THEN followUp(y, att, defOldPos)
                                             ELSE y, att) : y \in surfed }
                         final == Bind(followed, LAMBDA y :
                                      IF attKnockedDown
                                      THEN call("armourThenBall", <<y, att, InjuryContext>>)
                                      ELSE { y })
                     IN { R(y, verdict(attKnockedDown)) : y \in final }
                ELSE LET stripped ==
                             IF /\ ~defKnockedDown
                                /\ o.s.ball.isHeld /\ o.s.ball.carrierId = def
                                /\ hasSkill(o.s, att, "StripBall")
                             THEN LET dp == o.s.players[def].position
                                  IN call("resolveBounce", <<[o.s EXCEPT !.ball = onGround(dp)],
                                                   dp, 0, MaxThrowIns>>)
                             ELSE { o.s }
                         fendPrevents == hasSkill(o.s, def, "Fend") /\ ~defKnockedDown
                         followed == { IF ~noFollowUp /\ ~fendPrevents
                                       THEN followUp(y, att, defOldPos) ELSE y : y \in stripped }
                         defCtx == [armourModifier |->
                                        IF hasSkill(o.s, att, "MightyBlow") THEN 1 ELSE 0,
                                    injuryModifier |->
                                        IF hasSkill(o.s, att, "MightyBlow") THEN 1 ELSE 0,
                                    hasClaw |-> hasSkill(o.s, att, "Claw"),
                                    hasStakes |-> hasSkill(o.s, att, "Stakes"),
                                    hasDecay |-> hasSkill(o.s, def, "Decay"),
                                    hasNurglesRot |-> FALSE]
                         downed == Bind(followed, LAMBDA y :
                                       IF defKnockedDown
                                       THEN call("armourThenBall",
                                                 <<[y EXCEPT !.players[def].state = "PRONE"],
                                                   def, defCtx>>)
                                       ELSE { y })
                         attDown == Bind(downed, LAMBDA y :
                                        IF attKnockedDown
                                        THEN call("armourThenBall", <<y, att, InjuryContext>>)
                                        ELSE { y })
                     IN { R(y, IF attKnockedDown THEN "end turnover" ELSE "end ok") : y \in attDown })
        attackerDown(x) ==
            { R(acted(y, att), "turnover") :
                y \in call("armourThenBall", <<[x EXCEPT !.players[att].state = "PRONE"],
                                     att, InjuryContext>>) }
        bothDown(x) ==
            LET defWrestle == hasSkill(x, def, "Wrestle")
                attWrestle == hasSkill(x, att, "Wrestle") /\ ~hasSkill(x, att, "Block")
                attFalls == ~hasSkill(x, att, "Block")
                defFalls == ~hasSkill(x, def, "Block")
                x1 == IF attFalls THEN [x EXCEPT !.players[att].state = "PRONE"] ELSE x
            IN IF defWrestle \/ attWrestle
               THEN LET prone == [x EXCEPT !.players[att].state = "PRONE",
                                           !.players[def].state = "PRONE"]
                    IN { R(acted(z, att), "ok") :
                           z \in Bind(call("handleBallOnPlayerDown", <<prone, att>>),
                                      LAMBDA y : call("handleBallOnPlayerDown", <<y, def>>)) }
               ELSE IF ~defFalls
                    THEN IF attFalls
                         THEN { R(acted(y, att), "turnover") :
                                  y \in call("armourThenBall", <<x1, att, InjuryContext>>) }
                         ELSE { R(acted(x1, att), "ok") }
                    ELSE pushStage(x1, TRUE, attFalls)
        apply(x, chosen) ==
            CASE chosen = "ATTACKER_DOWN" -> attackerDown(x)
              [] chosen = "BOTH_DOWN" -> bothDown(x)
              [] OTHER ->
                    pushStage(x,
                              CASE chosen = "PUSHED" -> FALSE
                                [] chosen = "DEFENDER_STUMBLES" ->
                                      ~(hasSkill(x, def, "Dodge") /\ ~hasSkill(x, att, "Tackle"))
                                [] OTHER -> TRUE,
                              FALSE)
        normal ==
            LET attST == s.players[att].stats.strength
                         + (IF params.hornsBonus /\ hasSkill(s, att, "Horns") THEN 1 ELSE 0)
                attAssists == countAssists(s, s.players[def].position, teamSide(att),
                                           att, def, def)
                defAssists == countAssists(s, s.players[att].position, teamSide(def),
                                           att, def, att)
                effAttST == attST + attAssists
                effDefST == s.players[def].stats.strength + defAssists
                effAtts == IF hasSkill(s, att, "Dauntless") /\ effDefST > effAttST
                           THEN { IF roll + s.players[att].stats.strength
                                       > s.players[def].stats.strength
                                  THEN effDefST ELSE effAttST : roll \in D6 }
                           ELSE { effAttST }
            IN UNION { Bind(rollBlockDice(s, att, def, getBlockDiceInfo(e, effDefST),
                                          params.isBlitz),
                            LAMBDA o : apply(o.s, o.v)) : e \in effAtts }
        stab ==
            LET ctx == [InjuryContext EXCEPT !.hasStakes = hasSkill(s, att, "Stakes")]
            IN { R(acted(y, att), "ok") : y \in call("armourThenBall", <<s, def, ctx>>) }
        chainsaw ==
            attackerDown(s)
            \cup { R(acted(y, att), "ok") : y \in call("armourThenBall", <<s, def, InjuryContext>>) }
        afterFoulAppearance ==
            IF hasSkill(s, att, "Chainsaw") THEN chainsaw
            ELSE IF hasSkill(s, att, "Stab") THEN stab
            ELSE normal
    IN (IF hasSkill(s, def, "FoulAppearance") THEN { R(acted(s, att), "fail") } ELSE {})
       \cup afterFoulAppearance

\* a Frenzy test that forgets that the block is the second one
frenzyFollows_Again(s, att, def, frenzySecondBlock) ==
    /\ hasSkill(s, att, "Frenzy")
    /\ canAct(s.players[att].state)
    /\ canAct(s.players[def].state)
    /\ distanceTo(s.players[att].position, s.players[def].position) = 1

\* the mandatory second block of Frenzy: both stand side by side after a block
\* that was not itself the second one
frenzyFollows(s, att, def, frenzySecondBlock) ==
    /\ ~frenzySecondBlock
    /\ hasSkill(s, att, "Frenzy")
    /\ canAct(s.players[att].state)
    /\ canAct(s.players[def].state)
    /\ distanceTo(s.players[att].position, s.players[def].position) = 1

\* what the second block is called with
secondBlock(s, params) ==
    <<[s EXCEPT !.players[params.attackerId].hasActed = FALSE],
      [params EXCEPT !.hornsBonus = FALSE]>>

resolveBlock(s, params, frenzySecondBlock, noFollowUp) ==
    Bind(call("blockOnce", <<s, params, noFollowUp>>), LAMBDA o :
        IF o.v \notin {"end ok", "end turnover"} THEN { o }
        ELSE IF frenzyFollows(o.s, params.attackerId, params.targetId, frenzySecondBlock)
        THEN LET second == secondBlock(o.s, params)
             IN call("resolveBlock", <<second[1], second[2], TRUE, FALSE>>)
        ELSE { R(acted(o.s, params.attackerId),
                 IF o.v = "end turnover" THEN "turnover" ELSE "ok") })

(***************************************************************************)
(* Passing and hand-off (pass_handler.cpp)                                 *)
(***************************************************************************)
\* Bresenham walk from (x0, y0) to dst, both ends excluded
RECURSIVE passPathFrom(_, _, _, _, _, _, _, _)
passPathFrom(x0, y0, dst, err, dx, dy, sx, sy) ==
    LET e2 == 2 * err
        stepX == e2 > -dy
        stepY == e2 < dx
        nx == IF stepX THEN x0 + sx ELSE x0
        ny == IF stepY THEN y0 + sy ELSE y0
        nerr == err - (IF stepX THEN dy ELSE 0) + (IF stepY THEN dx ELSE 0)
    IN IF nx = dst.x /\ ny = dst.y THEN << >>
       ELSE << Pos(nx, ny) >> \o passPathFrom(nx, ny, dst, nerr, dx, dy, sx, sy)

getPassPath(src, dst) ==
    LET dx == Abs(dst.x - src.x)
        dy == Abs(dst.y - src.y)
    IN passPathFrom(src.x, src.y, dst, dx - dy, dx, dy,
                    IF src.x < dst.x THEN 1 ELSE -1, IF src.y < dst.y THEN 1 ELSE -1)

\* v = id of the interceptor, or -1
checkInterception(s, passerId, target) ==
    LET enemySide == opponent(teamSide(passerId))
        path == getPassPath(s.players[passerId].position, target)
        eligible == { i \in 1..Len(path) :
                        /\ posIsOnPitch(path[i])
                        /\ LET p == getPlayerAtPosition(s, path[i])
                           IN /\ p # 0
                              /\ teamSide(p) = enemySide
                              /\ canAct(s.players[p].state)
                              /\ ~s.players[p].lostTacklezones
                              /\ ~hasSkill(s, p, "NoHands") }
    IN IF eligible = {} THEN { R(s, -1) }
       ELSE LET interceptor == getPlayerAtPosition(s, path[MinOf(eligible)])
                pl == s.players[interceptor]
                intTarget == clamp(7 - pl.stats.agility + 2
                                   - (IF "VeryLongLegs" \in pl.skills THEN 1 ELSE 0)
                                   - (IF "ExtraArms" \in pl.skills THEN 1 ELSE 0)
                                   + (IF "NervesOfSteel" \notin pl.skills
                                      THEN countTacklezones(s, pl.position, enemySide, -1)
                                      ELSE 0), 2, 6)
                successes ==
                    IF hasSkill(s, passerId, "SafeThrow")
                    THEN { roll >= intTarget /\ reroll >= intTarget : roll \in D6, reroll \in D6 }
                    ELSE RollOK(intTarget)
            IN (IF TRUE \in successes
                THEN { R([s EXCEPT !.ball = carried(pl.position, interceptor)], interceptor) }
                ELSE {})
               \cup (IF FALSE \in successes THEN { R(s, -1) } ELSE {})

\* v = "accurate", "inaccurate" or "fumble": the pass roll with its rerolls of a natural 1
passRoll(s, passerId, passTarget) ==
    LET classify(roll) == IF roll = 1 THEN "fumble"
                          ELSE IF roll >= passTarget THEN "accurate" ELSE "inaccurate"
        again(x) == { R(x, classify(r)) : r \in D6 }
        teamStage(x) ==
            IF canUseReroll(getTeamState(x, teamSide(passerId)))
            THEN LET x2 == spendReroll(x, teamSide(passerId))
                 IN (IF hasSkill(x, passerId, "Loner") THEN { R(x2, "fumble") } ELSE {})
                    \cup again(x2)
            ELSE { R(x, "fumble") }
        proStage(x) ==
            IF hasSkill(x, passerId, "Pro") /\ ~x.players[passerId].proUsedThisTurn
            THEN LET x1 == markProUsed(x, passerId)
                 IN again(x1) \cup teamStage(x1)
            ELSE teamStage(x)
        natural1 == IF hasSkill(s, passerId, "Pass") THEN again(s) ELSE proStage(s)
    IN { R(s, classify(r)) : r \in 2..6 } \cup natural1

\* ok if the passer's side holds the ball, turnover otherwise
heldBySide(s, side) ==
    IF s.ball.isHeld /\ teamSide(s.ball.carrierId) = side THEN "ok" ELSE "turnover"

\* the thrown ball comes down at landPos
passLanding(s, passerId, landPos, modifier) ==
    LET side == teamSide(passerId)
        down == [s EXCEPT !.ball = onGround(landPos)]
        catcher == getPlayerAtPosition(down, landPos)
        loose(x) == { R(y, heldBySide(y, side)) :
                        y \in IF ~x.ball.isHeld
                              THEN call("resolveBounce", <<x, x.ball.position, 0, MaxThrowIns>>)
                              ELSE { x } }
    IN IF catcher # 0 /\ canAct(down.players[catcher].state)
          /\ ~hasSkill(down, catcher, "NoHands")
       THEN Bind(call("resolveCatch", <<down, catcher, modifier>>), LAMBDA o :
                IF o.v THEN { R(o.s, IF teamSide(catcher) = side THEN "ok" ELSE "turnover") }
                ELSE loose(o.s))
       ELSE loose(down)

\* the Hail Mary branch is not modelled: no team list grants HailMaryPass
resolvePass(s, passerId, target) ==
    LET side == teamSide(passerId)
        s0 == acted(setTeamState(s, side,
                       [getTeamState(s, side) EXCEPT !.passUsedThisTurn = TRUE]), passerId)
        passer == s0.players[passerId]
        dist == distanceTo(passer.position, target)
        released == [s0 EXCEPT !.ball = onGround(passer.position)]
        range0 == passRangeFromDistance(dist)
        range == IF "StrongArm" \in passer.skills /\ range0 # 0 THEN range0 - 1 ELSE range0
        passTarget ==
            clamp(7 - passer.stats.agility - passModifier(range)
                  - (IF "Accurate" \in passer.skills THEN 1 ELSE 0)
                  + (IF "NervesOfSteel" \notin passer.skills
                     THEN countTacklezones(released, passer.position, side, -1) ELSE 0)
                  + countDisturbingPresence(released, passer.position, side)
                  + (IF released.weather \in {"POURING_RAIN", "BLIZZARD", "VERY_SUNNY"}
                     THEN 1 ELSE 0), 2, 6)
        \* where an inaccurate pass can come down: d6 cells from the target along a d8
        scattered == { Pos(target.x + scatterDirection(d8).x * d6,
                           target.y + scatterDirection(d8).y * d6) : d8 \in D8, d6 \in D6 }
        thrown(x) ==
            Bind(passRoll(x, passerId, passTarget), LAMBDA o :
                CASE o.v = "fumble" ->
                        { R(y, "turnover") :
                            y \in call("resolveBounce", <<o.s, passer.position, 0, MaxThrowIns>>) }
                  [] o.v = "accurate" -> call("passLanding", <<o.s, passerId, target, 1>>)
                  [] OTHER ->
                        (IF \E landPos \in scattered : ~posIsOnPitch(landPos)
                         THEN { R(y, "turnover") :
                                y \in call("resolveThrowIn", <<o.s, target, MaxThrowIns>>) }
                         ELSE {})
                        \cup UNION { call("passLanding", <<o.s, passerId, landPos, 0>>) :
                                     landPos \in { l \in scattered : posIsOnPitch(l) } })
    IN IF ~s0.ball.isHeld \/ s0.ball.carrierId # passerId THEN { R(s0, "turnover") }
       ELSE IF dist > 13 THEN { R(s0, "turnover") }
       ELSE Bind(checkInterception(released, passerId, target), LAMBDA o :
                IF o.v >= 0 THEN { R(o.s, "turnover") } ELSE thrown(o.s))

resolveHandOff(s, giverId, receiverId) ==
    LET side == teamSide(giverId)
        s0 == acted(setTeamState(s, side,
                       [getTeamState(s, side) EXCEPT !.passUsedThisTurn = TRUE]), giverId)
        rpos == s0.players[receiverId].position
    IN IF distanceTo(s0.players[giverId].position, rpos) # 1 THEN { R(s0, "fail") }
       ELSE IF ~s0.ball.isHeld \/ s0.ball.carrierId # giverId THEN { R(s0, "turnover") }
       ELSE Bind(call("resolveCatch", <<[s0 EXCEPT !.ball = onGround(rpos)], receiverId, 1>>), LAMBDA o :
                IF o.v THEN { R(o.s, "ok") }
                ELSE { R(y, heldBySide(y, side)) :
                         y \in IF ~o.s.ball.isHeld
                               THEN call("resolveBounce", <<o.s, rpos, 0, MaxThrowIns>>)
                               ELSE { o.s } })

(***************************************************************************)
(* Foul, gaze, pre-action trait gate                                       *)
(* (foul_handler.cpp, gaze_handler.cpp, big_guy_handler.cpp)               *)
(***************************************************************************)
resolveFoul(s, foulerId, targetId) ==
    LET fouler == s.players[foulerId]
        target == s.players[targetId]
        assistMod == countAssists(s, target.position, teamSide(foulerId), foulerId, targetId, -1)
                     - countAssists(s, fouler.position, teamSide(targetId), foulerId, targetId, -1)
                     + (IF "DirtyPlayer" \in fouler.skills THEN 1 ELSE 0)
        \* the foul's own injury table: 2D6, Stunty +1, no modifier and no second roll
        ctx == [InjuryContext EXCEPT !.hasStakes = hasSkill(s, foulerId, "Stakes")]
        hurt == Bind(call("resolveInjuryRoll", <<s, targetId, ctx>>),
                     LAMBDA x : call("handleBallOnPlayerDown", <<x, targetId>>))
        eject(x) ==
            IF hasSkill(x, foulerId, "SneakyGit") THEN { x }
            ELSE call("handleBallOnPlayerDown", <<removeFromPitch(x, foulerId, "EJECTED"), foulerId>>)
        finish(x) ==
            R(setTeamState(acted(x, foulerId), teamSide(foulerId),
                  [getTeamState(x, teamSide(foulerId)) EXCEPT !.foulUsedThisTurn = TRUE]), "ok")
    IN IF target.state # "PRONE" /\ target.state # "STUNNED" THEN { R(s, "fail") }
       ELSE UNION { LET armourBroken == die1 + die2 + assistMod > target.stats.armour
                        afterArmour == IF armourBroken THEN hurt ELSE { s }
                        afterEject == IF die1 = die2
                                      THEN UNION { eject(x) : x \in afterArmour }
                                      ELSE afterArmour
                    IN { finish(x) : x \in afterEject } :
                    die1 \in D6, die2 \in D6 }

resolveHypnoticGaze(s, gazerId, targetId) ==
    LET s0 == acted(s, gazerId)
        tz == countTacklezones(s0, s0.players[gazerId].position, teamSide(gazerId), -1)
        outcomes == RollOK(Min2(6, 2 + tz))
    IN (IF TRUE \in outcomes
        THEN { R([s0 EXCEPT !.players[targetId].lostTacklezones = TRUE], "ok") } ELSE {})
       \cup (IF FALSE \in outcomes THEN { R(s0, "turnover") } ELSE {})

\* first standing team-mate around id, in adjacency order, that passes the test; 0 if none
firstAdjacentAlly(s, id, test(_)) ==
    LET adj == getAdjacent(s.players[id].position)
        hits == { i \in 1..8 :
                    /\ posIsOnPitch(adj[i])
                    /\ LET ally == getPlayerAtPosition(s, adj[i])
                       IN /\ ally # 0
                          /\ teamSide(ally) = teamSide(id)
                          /\ canAct(s.players[ally].state)
                          /\ test(ally) }
    IN IF hits = {} THEN 0 ELSE getPlayerAtPosition(s, adj[MinOf(hits)])

hasBigGuySkill(s, id) ==
    s.players[id].skills \cap {"BoneHead", "ReallyStupid", "WildAnimal", "TakeRoot", "Bloodlust"} # {}

\* v = [actionBlocked, proceed]
resolveBigGuyCheck(s, id, actionType) ==
    LET passes == [actionBlocked |-> FALSE, proceed |-> TRUE]
        blocked == [actionBlocked |-> TRUE, proceed |-> FALSE]
        dazed(x, losesZones) ==
            R([x EXCEPT !.players[id].lostTacklezones = IF losesZones THEN TRUE ELSE @,
                        !.players[id].hasActed = TRUE,
                        !.players[id].hasMoved = TRUE], blocked)
        bloodlust ==
            IF hasSkill(s, id, "Bloodlust")
            THEN LET thrall == firstAdjacentAlly(s, id, LAMBDA a : ~hasSkill(s, a, "Bloodlust"))
                 IN { R(s, passes),
                      IF thrall # 0 THEN R(removeFromPitch(s, thrall, "KO"), passes)
                      ELSE R(removeFromPitch(s, id, "KO"), blocked) }
            ELSE { R(s, passes) }
        takeRoot ==
            (IF hasSkill(s, id, "TakeRoot") /\ actionType \in {"MOVE", "BLITZ"}
             THEN { dazed(s, FALSE) } ELSE {})
            \cup bloodlust
        wildAnimal ==
            (IF hasSkill(s, id, "WildAnimal") /\ actionType \notin {"BLOCK", "BLITZ"}
             THEN { dazed(s, FALSE) } ELSE {})
            \cup takeRoot
        \* the roll needs 2+ beside a team-mate with tackle zones, 4+ otherwise
        stupidRolls ==
            IF hasSkill(s, id, "ReallyStupid")
            THEN RollOK(IF firstAdjacentAlly(s, id, LAMBDA a : ~s.players[a].lostTacklezones) # 0
                        THEN 2 ELSE 4)
            ELSE { TRUE }
        reallyStupid ==
            UNION { IF ok THEN wildAnimal ELSE { dazed(s, TRUE) } : ok \in stupidRolls }
    IN (IF hasSkill(s, id, "BoneHead") THEN { dazed(s, TRUE) } ELSE {})
       \cup reallyStupid

(***************************************************************************)
(* Throw team-mate, bombs, ball & chain                                    *)
(* (ttm_handler.cpp, bomb_handler.cpp, ball_and_chain_handler.cpp)         *)
(***************************************************************************)
\* thrown out of bounds: the ball comes loose, then the crowd takes the figure
thrownIntoCrowd(s, id) ==
    Bind(call("handleBallOnPlayerDown", <<s, id>>),
         LAMBDA x : call("resolveCrowdSurf", <<[x EXCEPT !.players[id].position = OffGrid], id>>))

\* fuel: re-scatters off occupied cells still allowed (the code has no such limit)
ttmLanding(s, projectileId, landPos, fuel) ==
    IF ~posIsOnPitch(landPos)
    THEN { R(x, "turnover") : x \in thrownIntoCrowd(s, projectileId) }
    ELSE IF getPlayerAtPosition(s, landPos) # 0
         THEN IF fuel = 0 THEN {}
              ELSE UNION { LET scatter == scatterDirection(d8)
                           IN call("ttmLanding", <<s, projectileId,
                                         Pos(landPos.x + scatter.x, landPos.y + scatter.y),
                                         fuel - 1>>) : d8 \in D8 }
         ELSE LET moved == [s EXCEPT !.players[projectileId].position = landPos]
                  placed == IF moved.ball.isHeld /\ moved.ball.carrierId = projectileId
                            THEN [moved EXCEPT !.ball.position = landPos] ELSE moved
                  landTarget == clamp(7 - placed.players[projectileId].stats.agility
                                      + countTacklezones(placed, landPos,
                                                         teamSide(projectileId), -1), 2, 6)
                  rolls == RollOK(landTarget)
              IN (IF TRUE \in rolls THEN { R(placed, "ok") } ELSE {})
                 \cup (IF FALSE \in rolls
                       THEN { R(x, "turnover") :
                                x \in call("armourThenBall", <<
                                        [placed EXCEPT !.players[projectileId].state = "PRONE"],
                                        projectileId, InjuryContext>>) }
                       ELSE {})

resolveThrowTeamMate(s, throwerId, projectileId, target) ==
    LET side == teamSide(throwerId)
        s0 == acted(setTeamState(s, side,
                       [getTeamState(s, side) EXCEPT !.passUsedThisTurn = TRUE]), throwerId)
        thrower == s0.players[throwerId]
        eaten(x) == { R(removeFromPitch(y, projectileId, "INJURED"), "ok") :
                        y \in call("handleBallOnPlayerDown", <<x, projectileId>>) }
        throw(x) ==
            LET range0 == passRangeFromDistance(distanceTo(thrower.position, target))
                range == IF "StrongArm" \in thrower.skills /\ range0 # 0
                         THEN range0 - 1 ELSE range0
                passTarget == clamp(7 - thrower.stats.agility - passModifier(range)
                                    + (IF "NervesOfSteel" \notin thrower.skills
                                       THEN countTacklezones(x, thrower.position, side, -1)
                                       ELSE 0), 2, 6)
                around(p) == { Pos(p.x + scatterDirection(d8).x, p.y + scatterDirection(d8).y) :
                                 d8 \in D8 }
                landings == UNION { IF roll = 1 THEN around(thrower.position)
                                    ELSE IF roll >= passTarget THEN { target }
                                    ELSE around(target) : roll \in D6 }
            IN UNION { call("ttmLanding", <<x, projectileId, landPos, MaxTtmScatters>>) :
                       landPos \in landings }
        hungry ==
            \* a 1 on the first roll: team reroll behind the Loner gate, else eaten
            IF canUseReroll(getTeamState(s0, side))
            THEN LET s1 == spendReroll(s0, side)
                 IN eaten(s1) \cup throw(s1)
            ELSE eaten(s0)
    IN IF "AlwaysHungry" \in thrower.skills THEN throw(s0) \cup hungry ELSE throw(s0)

\* the blast, cell by cell: dx outer, dy inner, each victim resolved before the next
explode(s, throwerId, explosionPos, k) ==
    IF k > 9 THEN { s }
    ELSE LET checkPos == Pos(explosionPos.x + ((k - 1) \div 3) - 1,
                             explosionPos.y + ((k - 1) % 3) - 1)
             victim == IF posIsOnPitch(checkPos) THEN getPlayerAtPosition(s, checkPos) ELSE 0
         IN IF victim = 0 \/ victim = throwerId \/ s.players[victim].state # "STANDING"
            THEN call("explode", <<s, throwerId, explosionPos, k + 1>>)
            ELSE UNION { call("explode", <<x, throwerId, explosionPos, k + 1>>) :
                         x \in call("armourThenBall", <<[s EXCEPT !.players[victim].state = "PRONE"],
                                              victim, InjuryContext>>) }

RECURSIVE scatterN(_, _)
scatterN(P, n) ==
    IF n = 0 THEN P
    ELSE scatterN({ Pos(p.x + scatterDirection(d8).x, p.y + scatterDirection(d8).y) :
                      p \in P, d8 \in D8 }, n - 1)

resolveBombThrow(s, throwerId, target) ==
    LET side == teamSide(throwerId)
        s0 == acted(setTeamState(s, side,
                       [getTeamState(s, side) EXCEPT !.passUsedThisTurn = TRUE]), throwerId)
        thrower == s0.players[throwerId]
        range == passRangeFromDistance(distanceTo(thrower.position, target))
        passTarget ==
            clamp(7 - thrower.stats.agility - passModifier(range)
                  + (IF "NervesOfSteel" \notin thrower.skills
                     THEN countTacklezones(s0, thrower.position, side, -1) ELSE 0)
                  + countDisturbingPresence(s0, thrower.position, side)
                  + (IF s0.weather \in {"POURING_RAIN", "BLIZZARD", "VERY_SUNNY"}
                     THEN 1 ELSE 0), 2, 6)
        explosions == UNION { IF roll = 1 THEN scatterN({ thrower.position }, 1)
                              ELSE IF roll < passTarget THEN scatterN({ target }, 3)
                              ELSE { target } : roll \in D6 }
    IN UNION { IF ~posIsOnPitch(e) THEN { R(s0, "ok") }
               ELSE { R(x, "ok") : x \in call("explode", <<s0, throwerId, e, 1>>) } :
               e \in explosions }

\* v = TRUE: the ball & chain figure went down
resolveAutoBlock(s, bcPlayerId, targetId) ==
    LET down(x, id) == call("armourThenBall", <<[x EXCEPT !.players[id].state = "PRONE"],
                                      id, InjuryContext>>)
        bcFalls == ~hasSkill(s, bcPlayerId, "Block")
        defFalls == ~hasSkill(s, targetId, "Block")
        face(f) ==
            CASE f = "ATTACKER_DOWN" -> { R(x, TRUE) : x \in down(s, bcPlayerId) }
              [] f = "BOTH_DOWN" ->
                    { R(y, bcFalls) :
                        y \in Bind(IF bcFalls THEN down(s, bcPlayerId) ELSE { s },
                                   LAMBDA x : IF defFalls THEN down(x, targetId) ELSE { x }) }
              [] f = "PUSHED" -> { R(s, FALSE) }
              [] f = "DEFENDER_STUMBLES" ->
                    IF hasSkill(s, targetId, "Dodge") /\ ~hasSkill(s, bcPlayerId, "Tackle")
                    THEN { R(s, FALSE) }
                    ELSE { R(x, FALSE) : x \in down(s, targetId) }
              [] OTHER -> { R(x, FALSE) : x \in down(s, targetId) }
    IN UNION { face(f) : f \in BlockFaces }

ballAndChainSteps(s, id, stepsLeft) ==
    IF stepsLeft = 0 THEN { s }
    ELSE UNION {
        LET scatter == scatterDirection(d8)
            from == s.players[id].position
            target == Pos(from.x + scatter.x, from.y + scatter.y)
            occupant == IF posIsOnPitch(target) THEN getPlayerAtPosition(s, target) ELSE 0
        IN IF ~posIsOnPitch(target)
           THEN { removeFromPitch(x, id, "KO") : x \in call("handleBallOnPlayerDown", <<s, id>>) }
           ELSE IF occupant # 0 /\ s.players[occupant].state = "STANDING"
                THEN Bind(resolveAutoBlock(s, id, occupant), LAMBDA o :
                         IF o.v THEN { o.s } ELSE call("ballAndChainSteps", <<o.s, id, stepsLeft - 1>>))
                ELSE LET moved == [s EXCEPT !.players[id].position = target]
                         withBall == IF moved.ball.isHeld /\ moved.ball.carrierId = id
                                     THEN [moved EXCEPT !.ball.position = target] ELSE moved
                         rolled == IF ~withBall.ball.isHeld /\ withBall.ball.position = target
                                   THEN call("resolveBounce", <<withBall, target, 0, MaxThrowIns>>)
                                   ELSE { withBall }
                     IN UNION { call("ballAndChainSteps", <<x, id, stepsLeft - 1>>) : x \in rolled } :
        d8 \in D8 }

resolveBallAndChain(s, id) ==
    { R(x, "ok") : x \in call("ballAndChainSteps", <<acted(s, id), id, s.players[id].stats.movement>>) }

(***************************************************************************)
(* Pathfinder (pathfinder.cpp)                                             *)
(***************************************************************************)
\* breadth-first flood over free cells; TRUE as soon as a visited cell other
\* than the start touches the target
RECURSIVE floodReaches(_, _, _, _, _, _, _)
floodReaches(s, start, target, frontier, visited, cost, maxRange) ==
    IF \E c \in frontier : distanceTo(c, target) = 1 /\ c # start THEN TRUE
    ELSE IF frontier = {} \/ cost + 1 > maxRange THEN FALSE
    ELSE LET next == { np \in UNION { AdjSet(c) : c \in frontier } \ visited :
                         np # target /\ getPlayerAtPosition(s, np) = 0 }
         IN floodReaches(s, start, target, next, visited \cup next, cost + 1, maxRange)

canReachAdjacentTo(s, id, target) ==
    LET player == s.players[id]
        proneCost == IF player.state = "PRONE" /\ "JumpUp" \notin player.skills THEN 3 ELSE 0
        maxMove == player.movementRemaining - proneCost
        maxRange == maxMove + (IF "Sprint" \in player.skills THEN 3 ELSE 2)
    IN IF ~isOnPitch(player.state) \/ player.state = "STUNNED" THEN FALSE
       ELSE IF maxRange <= 0 THEN FALSE
       ELSE IF distanceTo(player.position, target) > maxRange + 1 THEN FALSE
       ELSE floodReaches(s, player.position, target, { player.position },
                         { player.position }, proneCost, maxRange)

(***************************************************************************)
(* Legal-action enumerator (rules_engine.h, rules_engine.cpp)              *)
(***************************************************************************)
Action(type, playerId, targetId, target) ==
    [type |-> type, playerId |-> playerId, targetId |-> targetId, target |-> target]

\* occupants of the cells around id that satisfy the test
adjacentFigures(s, id, test(_)) ==
    { q \in { getPlayerAtPosition(s, apos) : apos \in AdjSet(s.players[id].position) } :
        q # 0 /\ test(q) }

figureActions(s, id) ==
    LET p == s.players[id]
        side == s.activeTeam
        team == getTeamState(s, side)
        enemySide == opponent(side)
        maxGfi == IF "Sprint" \in p.skills THEN 3 ELSE 2
        isEnemy(q, states) == teamSide(q) = enemySide /\ s.players[q].state \in states
        isMate(q) == teamSide(q) = side /\ s.players[q].state = "STANDING"
        hasBall == /\ ~team.passUsedThisTurn
                   /\ s.ball.isHeld /\ s.ball.carrierId = id
                   /\ "NoHands" \notin p.skills
        moves == { Action("MOVE", id, -1, pos) : pos \in
                     { a \in AdjSet(p.position) :
                         getPlayerAtPosition(s, a) = 0 /\ ~(p.movementRemaining - 1 < -maxGfi) } }
        blocks == { Action("BLOCK", id, q, s.players[q].position) :
                      q \in adjacentFigures(s, id, LAMBDA q : isEnemy(q, {"STANDING"})) }
        blitzes == IF ~team.blitzUsedThisTurn /\ ~p.usedBlitz
                   THEN { Action("BLITZ", id, q, s.players[q].position) : q \in
                            { e \in TeamIds(enemySide) :
                                /\ s.players[e].state = "STANDING"
                                /\ \/ distanceTo(p.position, s.players[e].position) = 1
                                   \/ canReachAdjacentTo(s, id, s.players[e].position) } }
                   ELSE {}
        passes == IF hasBall
                  THEN { Action("PASS", id, -1, s.players[q].position) : q \in
                           { m \in TeamIds(side) :
                               /\ m # id
                               /\ s.players[m].state = "STANDING"
                               /\ distanceTo(p.position, s.players[m].position) <= 13 } }
                  ELSE {}
        handOffs == IF hasBall
                    THEN { Action("HAND_OFF", id, q, s.players[q].position) :
                             q \in adjacentFigures(s, id, isMate) }
                    ELSE {}
        fouls == IF ~team.foulUsedThisTurn
                 THEN { Action("FOUL", id, q, s.players[q].position) :
                          q \in adjacentFigures(s, id,
                                                LAMBDA q : isEnemy(q, {"PRONE", "STUNNED"})) }
                 ELSE {}
        throws == IF "ThrowTeamMate" \in p.skills /\ ~team.passUsedThisTurn
                  THEN { Action("THROW_TEAM_MATE", id, q, Pos(3 * i, 3 * j)) :
                           q \in adjacentFigures(s, id,
                                   LAMBDA q : isMate(q) /\ hasSkill(s, q, "RightStuff")),
                           i \in { i \in 0..8 : 3 * i < 26 },
                           j \in { j \in 0..4 : 3 * j < 15 } }
                  ELSE {}
        inRange(a) == LET dist == distanceTo(p.position, a.target) IN dist > 0 /\ dist <= 13
        bombs == IF "Bombardier" \in p.skills /\ ~team.passUsedThisTurn
                 THEN { Action("BOMB_THROW", id, -1, s.players[e].position) : e \in
                          { e \in TeamIds(enemySide) :
                              /\ s.players[e].state = "STANDING"
                              /\ distanceTo(p.position, s.players[e].position) <= 13 } }
                 ELSE {}
        gazes == IF "HypnoticGaze" \in p.skills
                 THEN { Action("HYPNOTIC_GAZE", id, q, s.players[q].position) :
                          q \in adjacentFigures(s, id, LAMBDA q : isEnemy(q, {"STANDING"})) }
                 ELSE {}
    IN IF "BallAndChain" \in p.skills THEN { Action("BALL_AND_CHAIN", id, -1, OffGrid) }
       ELSE moves \cup blocks \cup blitzes \cup passes \cup handOffs \cup fouls
            \cup { a \in throws : inRange(a) } \cup bombs \cup gazes

\* the multiple-block entries are left out: no roster grants MultipleBlock
getAvailableActions(s) ==
    IF s.phase # "PLAY" THEN {}
    ELSE LET side == s.activeTeam
             standUps == { Action("MOVE", i, -1, s.players[i].position) : i \in
                             { i \in TeamIds(side) :
                                 /\ s.players[i].state = "PRONE"
                                 /\ ~s.players[i].hasActed /\ ~s.players[i].lostTacklezones
                                 /\ \/ hasSkill(s, i, "JumpUp")
                                    \/ s.players[i].movementRemaining >= 3 } }
         IN { Action("END_TURN", -1, -1, OffGrid) }
            \cup UNION { figureActions(s, i) :
                           i \in { i \in TeamIds(side) :
                                     playerIsOnPitch(s, i) /\ playerCanAct(s, i) } }
            \cup standUps

(***************************************************************************)
(* Action resolver (action_resolver.cpp)                                   *)
(***************************************************************************)
\* blitz moves one blitz may still take (the loop itself carries no counter)
MaxBlitzSteps == 12
\* the dice <<d6, d8, 2d6>> a full kickoff is followed for: every direction
\* and every kickoff event one cell from the target, along the pitch as far as
\* the line of scrimmage under the event that changes nothing, and six cells
\* along the pitch, over the line or to the end zone, under four of the events
KickDice ==
    { <<1, dir, kickoffRoll>> : dir \in D8, kickoffRoll \in TwoD6 }
    \cup { <<5, dir, 4>> : dir \in { d \in D8 : scatterDirection(d).y = 0 } }
    \cup { <<6, dir, kickoffRoll>> : dir \in { d \in D8 : scatterDirection(d).y = 0 },
                                     kickoffRoll \in {3, 4, 9, 11} }
\* the same where a match is played on after the kickoff: one landing cell,
\* every kickoff event
MatchKickDice == { <<1, 1, kickoffRoll>> : kickoffRoll \in TwoD6 }
\* kickoffs followed in one match
MaxKickoffs == 1

\* a dispatch that looks the target up whatever the action is
lookedUp_Always(s, a) == { a.playerId, a.targetId }

\* ids the dispatch hands to GameState::getPlayer before any handler runs
lookedUp(s, a) ==
    (IF requiresPlayer(a.type) /\ a.playerId > 0 THEN { a.playerId } ELSE {})
    \cup (CASE a.type \in {"MOVE", "PASS", "BOMB_THROW", "BALL_AND_CHAIN"} -> { a.playerId }
            [] a.type \in {"BLOCK", "BLITZ", "HAND_OFF", "FOUL", "THROW_TEAM_MATE",
                           "HYPNOTIC_GAZE"} -> { a.playerId, a.targetId }
            [] OTHER -> {})

\* GameState::getPlayer throws std::out_of_range outside 1..22
getPlayerThrows(id) == id < 1 \/ id > 22

\* the cell a blitzer steps to next: the free neighbour nearest to the target,
\* the first such in adjacency order; OffGrid if there is none
blitzNextStep(s, id, targetPos) ==
    LET adj == getAdjacent(s.players[id].position)
        free == { i \in 1..8 : posIsOnPitch(adj[i]) /\ getPlayerAtPosition(s, adj[i]) = 0 }
        best == { i \in free : \A j \in free : distanceTo(adj[i], targetPos)
                                                 <= distanceTo(adj[j], targetPos) }
    IN IF free = {} THEN OffGrid ELSE adj[MinOf(best)]

blitzApproach(s, a, fuel) ==
    LET id == a.playerId
        targetPos == s.players[a.targetId].position
        dist == distanceTo(s.players[id].position, targetPos)
    IN IF dist > 1
       THEN IF ~canReachAdjacentTo(s, id, targetPos) THEN { R(s, "fail") }
            ELSE LET bestNext == blitzNextStep(s, id, targetPos)
                 IN IF bestNext.x < 0 THEN { R(s, "fail") }
                    ELSE IF fuel = 0 THEN {}
                    ELSE Bind(call("resolveMoveStep", <<s, id, bestNext>>), LAMBDA o :
                             IF o.v # "ok" THEN { o }
                             ELSE IF o.s.players[id].state # "STANDING"
                                  THEN { R(o.s, "turnover") }
                                  ELSE call("blitzApproach", <<o.s, a, fuel - 1>>))
       ELSE IF dist # 1 THEN { R(s, "fail") }
            ELSE call("resolveBlock", <<s, [attackerId |-> id, targetId |-> a.targetId,
                                  isBlitz |-> TRUE, hornsBonus |-> TRUE], FALSE, FALSE>>)

\* a blitz that is marked on the figure alone
markBlitzUsed_FigureOnly(s, id) == [s EXCEPT !.players[id].usedBlitz = TRUE]

\* "Mark blitz used": on the team and on the figure
markBlitzUsed(s, id) ==
    [setTeamState(s, teamSide(id), [getTeamState(s, teamSide(id))
                                      EXCEPT !.blitzUsedThisTurn = TRUE])
       EXCEPT !.players[id].usedBlitz = TRUE]

dispatch(s, a) ==
    CASE a.type = "MOVE" ->
            IF s.players[a.playerId].state = "PRONE"
            THEN Bind(call("resolveStandUp", <<s, a.playerId>>), LAMBDA o :
                     IF o.v # "ok" THEN { o }
                     ELSE IF a.target = o.s.players[a.playerId].position THEN { R(o.s, "ok") }
                     ELSE call("resolveMoveStep", <<o.s, a.playerId, a.target>>))
            ELSE call("resolveMoveStep", <<s, a.playerId, a.target>>)
      [] a.type = "BLOCK" ->
            call("resolveBlock", <<s, [attackerId |-> a.playerId, targetId |-> a.targetId,
                             isBlitz |-> FALSE, hornsBonus |-> FALSE], FALSE, FALSE>>)
      [] a.type = "BLITZ" ->
            LET used == markBlitzUsed(s, a.playerId)
            IN IF used.players[a.playerId].state = "PRONE"
               THEN Bind(call("resolveStandUp", <<used, a.playerId>>), LAMBDA o :
                        IF o.v # "ok" THEN { o } ELSE call("blitzApproach", <<o.s, a, MaxBlitzSteps>>))
               ELSE call("blitzApproach", <<used, a, MaxBlitzSteps>>)
      [] a.type = "PASS" -> resolvePass(s, a.playerId, a.target)
      [] a.type = "HAND_OFF" -> resolveHandOff(s, a.playerId, a.targetId)
      [] a.type = "FOUL" -> resolveFoul(s, a.playerId, a.targetId)
      [] a.type = "THROW_TEAM_MATE" ->
            resolveThrowTeamMate(s, a.playerId, a.targetId, a.target)
      [] a.type = "BOMB_THROW" -> resolveBombThrow(s, a.playerId, a.target)
      [] a.type = "HYPNOTIC_GAZE" -> resolveHypnoticGaze(s, a.playerId, a.targetId)
      [] a.type = "BALL_AND_CHAIN" -> resolveBallAndChain(s, a.playerId)
      [] a.type = "END_TURN" -> { R(resolveEndTurn(s), "ok") }
      [] OTHER -> { R(s, "fail") }

\* v = "ok", "fail", "turnover", or "exception" when a lookup throws
resolveAction(s, a) ==
    LET gated == requiresPlayer(a.type) /\ a.playerId > 0 /\ hasBigGuySkill(s, a.playerId)
        checked == IF gated THEN resolveBigGuyCheck(s, a.playerId, a.type)
                   ELSE { R(s, [actionBlocked |-> FALSE, proceed |-> TRUE]) }
    IN IF \E id \in lookedUp(s, a) : getPlayerThrows(id) THEN { R(s, "exception") }
       ELSE Bind(checked, LAMBDA o :
                IF o.v.actionBlocked /\ ~o.v.proceed THEN { R(o.s, "ok") }
                ELSE dispatch(o.s, a))

\* closeAction with the two checks in the other order
closeAction_TouchdownLast(s) ==
    LET over == IF checkHalfOver(s)
                THEN [s EXCEPT !.phase = IF s.half >= 2 THEN "GAME_OVER" ELSE "HALF_TIME"]
                ELSE s
    IN IF checkTouchdown(over)
       THEN LET scoringSide == teamSide(over.ball.carrierId)
            IN [setTeamState(over, scoringSide,
                   [getTeamState(over, scoringSide) EXCEPT !.score = @ + 1])
                  EXCEPT !.phase = "TOUCHDOWN"]
       ELSE over

\* closeAction that takes every half for the first
closeAction_AlwaysHalfTime(s) ==
    LET scored == IF checkTouchdown(s)
                  THEN LET scoringSide == teamSide(s.ball.carrierId)
                       IN [setTeamState(s, scoringSide,
                              [getTeamState(s, scoringSide) EXCEPT !.score = @ + 1])
                             EXCEPT !.phase = "TOUCHDOWN"]
                  ELSE s
    IN IF checkHalfOver(scored)
       THEN [scored EXCEPT !.phase = "HALF_TIME"]
       ELSE scored

\* the touchdown and half-over checks that close executeAction
closeAction(s) ==
    LET scored == IF checkTouchdown(s)
                  THEN LET scoringSide == teamSide(s.ball.carrierId)
                       IN [setTeamState(s, scoringSide,
                              [getTeamState(s, scoringSide) EXCEPT !.score = @ + 1])
                             EXCEPT !.phase = "TOUCHDOWN"]
                  ELSE s
    IN IF checkHalfOver(scored)
       THEN [scored EXCEPT !.phase = IF scored.half >= 2 THEN "GAME_OVER" ELSE "HALF_TIME"]
       ELSE scored

\* executeAction that ends the turn after a failure as after a turnover
executeAction_EndsOnFail(s, a) ==
    Bind(resolveAction(s, a), LAMBDA o :
        LET calls == (IF a.type = "END_TURN" /\ o.v = "ok" THEN 1 ELSE 0)
                     + (IF o.v \in {"turnover", "fail"} THEN 1 ELSE 0)
            closed(ended) ==
                IF ended.ball.isHeld /\ getPlayerThrows(ended.ball.carrierId)
                THEN { R(ended, [result |-> "exception", endTurns |-> calls]) }
                ELSE { R(closeAction(ended), [result |-> o.v, endTurns |-> calls]) }
        IN IF o.v = "exception" THEN { R(o.s, [result |-> "exception", endTurns |-> 0]) }
           ELSE closed(IF o.v \in {"turnover", "fail"}
                       THEN resolveEndTurn([o.s EXCEPT !.turnoverPending = TRUE])
                       ELSE o.s))

\* v = [result, endTurns]: the ActionResult, and how often resolveEndTurn ran
executeAction(s, a) ==
    Bind(resolveAction(s, a), LAMBDA o :
        LET calls == (IF a.type = "END_TURN" /\ o.v = "ok" THEN 1 ELSE 0)
                     + (IF o.v = "turnover" THEN 1 ELSE 0)
            closed(ended) ==
                IF ended.ball.isHeld /\ getPlayerThrows(ended.ball.carrierId)
                THEN { R(ended, [result |-> "exception", endTurns |-> calls]) }
                ELSE { R(closeAction(ended), [result |-> o.v, endTurns |-> calls]) }
        IN IF o.v = "exception" THEN { R(o.s, [result |-> "exception", endTurns |-> 0]) }
           ELSE closed(IF o.v = "turnover"
                       THEN resolveEndTurn([o.s EXCEPT !.turnoverPending = TRUE])
                       ELSE o.s))

(***************************************************************************)
(* Kickoff (kickoff_handler.cpp) and the simulator's simple kickoff        *)
(***************************************************************************)
standingOf(s, side) ==
    { i \in TeamIds(side) : isOnPitch(s.players[i].state) /\ s.players[i].state = "STANDING" }

\* the first standing figure of the side, in id order, nearest to target; -1 if none
\* a search that finds no figure
findClosestPlayer_None(s, side, target) == -1

findClosestPlayer(s, side, target) ==
    LET cand == standingOf(s, side)
        near == { i \in cand : \A j \in cand :
                     distanceTo(s.players[i].position, target)
                       <= distanceTo(s.players[j].position, target) }
    IN IF cand = {} THEN -1 ELSE MinOf(near)

movePlayerToward(s, playerId, target) ==
    LET p == s.players[playerId]
        adj == getAdjacent(p.position)
        free == { i \in 1..8 : posIsOnPitch(adj[i]) /\ getPlayerAtPosition(s, adj[i]) = 0
                               /\ distanceTo(adj[i], target) < distanceTo(p.position, target) }
        best == { i \in free : \A j \in free :
                     distanceTo(adj[i], target) <= distanceTo(adj[j], target) }
    IN IF p.state # "STANDING" \/ free = {} THEN s
       ELSE LET bestPos == adj[MinOf(best)]
                balled == IF s.ball.isHeld /\ s.ball.carrierId = playerId
                          THEN [s EXCEPT !.ball.position = bestPos] ELSE s
            IN [balled EXCEPT !.players[playerId].position = bestPos]

\* the standing figures of ids first..last step toward target, one after another
RECURSIVE moveAllToward(_, _, _, _)
moveAllToward(s, first, lastId, target) ==
    IF first > lastId THEN s
    ELSE moveAllToward(IF isOnPitch(s.players[first].state)
                          /\ s.players[first].state = "STANDING"
                       THEN movePlayerToward(s, first, target) ELSE s,
                       first + 1, lastId, target)

sideFirst(side) == IF side = "HOME" THEN 1 ELSE 12
sideLast(side) == IF side = "HOME" THEN 11 ELSE 22

\* one rock per side: the (d6 % count)-th standing figure, in id order, is stunned
throwRock(s, side) ==
    LET standing == standingOf(s, side)
        count == Cardinality(standing)
        nth(k) == CHOOSE i \in standing :
                      Cardinality({ j \in standing : j < i }) = k
    IN IF count = 0 THEN { s }
       ELSE { [s EXCEPT !.players[nth(d % count)].state = "STUNNED"] : d \in D6 }

\* the sets of figures a pitch invasion can stun, up to MaxInvasionStuns of them
RECURSIVE invasionSets(_, _)
invasionSets(standing, k) ==
    IF k = 0 THEN { {} }
    ELSE LET smaller == invasionSets(standing, k - 1)
         IN smaller \cup { S \cup { i } : S \in smaller, i \in standing }

bumpRerolls(s) ==
    { IF homeRoll > awayRoll THEN [s EXCEPT !.homeTeam.rerolls = @ + 1]
      ELSE IF awayRoll > homeRoll THEN [s EXCEPT !.awayTeam.rerolls = @ + 1]
      ELSE s : homeRoll \in D6, awayRoll \in D6 }

resolveKickoffEvent(s, event, receiving) ==
    LET kicking == opponent(receiving)
    IN CASE event = "RIOT" ->
              LET recvTeam == getTeamState(s, receiving)
              IN { setTeamState(s, receiving,
                      [recvTeam EXCEPT !.turnNumber = IF @ <= 1 THEN @ + 1 ELSE @ - 1]) }
         [] event = "HIGH_KICK" ->
              LET closestId == findClosestPlayer(s, receiving, s.ball.position)
              IN IF closestId >= 0 /\ ~s.ball.isHeld
                    /\ getPlayerAtPosition(s, s.ball.position) = 0
                 THEN { [s EXCEPT !.players[closestId].position = s.ball.position] }
                 ELSE { s }
         [] event \in {"CHEERING", "BRILLIANT_COACHING"} -> bumpRerolls(s)
         [] event = "CHANGING_WEATHER" ->
              { [s EXCEPT !.weather = weatherFromRoll(r)] : r \in TwoD6 }
         [] event = "QUICK_SNAP" ->
              { moveAllToward(s, sideFirst(receiving), sideLast(receiving),
                              Pos(IF receiving = "HOME" THEN 12 ELSE 13, 7)) }
         [] event = "BLITZ" ->
              { moveAllToward(s, sideFirst(kicking), sideLast(kicking),
                              Pos(IF kicking = "HOME" THEN 12 ELSE 13, 7)) }
         [] event = "THROW_A_ROCK" ->
              UNION { throwRock(h, "AWAY") : h \in throwRock(s, "HOME") }
         [] event = "PITCH_INVASION" ->
              LET standing == standingOf(s, "HOME") \cup standingOf(s, "AWAY")
              IN { [s EXCEPT !.players = [i \in Ids |->
                       IF i \in S THEN [s.players[i] EXCEPT !.state = "STUNNED"]
                       ELSE s.players[i]]] : S \in invasionSets(standing, MaxInvasionStuns) }
         [] OTHER -> { s }

\* both kickoffs open alike: the receiving side becomes active and starts turn 1
openKickoff(s) ==
    LET receiving == opponent(s.kickingTeam)
        zeroed == [s EXCEPT !.activeTeam = receiving,
                            !.homeTeam.turnNumber = 0, !.awayTeam.turnNumber = 0]
        first == setTeamState(zeroed, receiving,
                    resetForNewTurn([getTeamState(zeroed, receiving) EXCEPT !.turnNumber = 1]))
    IN resetPlayersForNewTurn(first, receiving)

kickLanding(kickX, dist, d8) ==
    Pos(clamp(kickX + scatterDirection(d8).x * dist, 0, 25),
        clamp(7 + scatterDirection(d8).y * dist, 0, 14))

\* the closest figure with KickOffReturn steps up to three cells toward the ball
RECURSIVE kickOffReturn(_, _, _)
kickOffReturn(s, receiving, id) ==
    IF id > sideLast(receiving) THEN s
    ELSE LET kor == { i \in standingOf(s, receiving) : "KickOffReturn" \in s.players[i].skills }
             near == { i \in kor : \A j \in kor :
                          distanceTo(s.players[i].position, s.ball.position)
                            <= distanceTo(s.players[j].position, s.ball.position) }
             step(x) == movePlayerToward(x, id, x.ball.position)
         IN kickOffReturn(IF id \in kor /\ id = MinOf(near) THEN step(step(step(s))) ELSE s,
                          receiving, id + 1)

\* the kick has come down outside the receiving side's half
touchbackAt(receiving, landPos) ==
    (receiving = "HOME" /\ landPos.x > 12) \/ (receiving = "AWAY" /\ landPos.x < 13)

\* dist, dir and kickoffRoll are the dice of the kick and of the kickoff table;
\* the result holds every state the remaining dice can lead to
resolveKickoff(s, dist, dir, kickoffRoll) ==
    LET receiving == opponent(s.kickingTeam)
        kickX == IF s.kickingTeam = "HOME" THEN 18 ELSE 7
        placed(opened, landPos, touchback) ==
            Let(findClosestPlayer(opened, receiving, landPos), LAMBDA closestId :
                IF touchback /\ closestId >= 0
                THEN [opened EXCEPT !.ball = carried(opened.players[closestId].position,
                                                     closestId)]
                ELSE [opened EXCEPT !.ball = onGround(landPos)])
        caught(returned, catcher, touchback) ==
            IF ~touchback /\ ~returned.ball.isHeld /\ catcher # 0
               /\ teamSide(catcher) = receiving
               /\ returned.players[catcher].state = "STANDING"
            THEN Bind(call("resolveCatch", <<returned, catcher, 0>>), LAMBDA o :
                     IF o.v THEN { o.s }
                     ELSE call("resolveBounce", <<o.s, o.s.ball.position, 0, MaxThrowIns>>))
            ELSE { returned }
        finish(x, touchback) ==
            Let(IF touchback THEN x ELSE kickOffReturn(x, receiving, sideFirst(receiving)),
                LAMBDA returned :
                    { [y EXCEPT !.phase = "PLAY"] :
                      y \in caught(returned,
                                   getPlayerAtPosition(returned, returned.ball.position),
                                   touchback) })
        weathered(e, event) ==
            IF event = "CHANGING_WEATHER" THEN { e }
            ELSE { [e EXCEPT !.weather = weatherFromRoll(w)] : w \in TwoD6 }
        kicked(opened, landPos, touchback, event) ==
            UNION { finish(x, touchback) :
                    x \in UNION { weathered(e, event) :
                                  e \in resolveKickoffEvent(placed(opened, landPos, touchback),
                                                            event, receiving) } }
        landing(landPos) ==
            kicked(openKickoff(s), landPos, touchbackAt(receiving, landPos),
                   kickoffEventFromRoll(clamp(kickoffRoll, 2, 12)))
    IN landing(kickLanding(kickX, dist, dir))

\* simpleKickoff that leaves an uncaught ball where the set-up put it
simpleKickoff_NoGroundBall(s) ==
    LET receiving == opponent(s.kickingTeam)
        opened == openKickoff(s)
        kickX == IF s.kickingTeam = "HOME" THEN 22 ELSE 3
    IN UNION { LET dist == IF hasKickPlayer(opened, opened.kickingTeam)
                           THEN (d + 1) \div 2 ELSE d
                   landPos == kickLanding(kickX, dist, dir)
                   catcher == getPlayerAtPosition(opened, landPos)
                   landed == IF catcher # 0 /\ teamSide(catcher) = receiving
                                /\ opened.players[catcher].state = "STANDING"
                             THEN { o.s : o \in call("resolveCatch", <<opened, catcher, 0>>) }
                             ELSE { opened }
               IN { [y EXCEPT !.phase = "PLAY", !.weather = weatherFromRoll(w)] :
                    y \in landed, w \in TwoD6 } :
               d \in D6, dir \in D8 }

simpleKickoff(s) ==
    LET receiving == opponent(s.kickingTeam)
        opened == openKickoff(s)
        kickX == IF s.kickingTeam = "HOME" THEN 22 ELSE 3
    IN UNION { LET dist == IF hasKickPlayer(opened, opened.kickingTeam)
                           THEN (d + 1) \div 2 ELSE d
                   landPos == kickLanding(kickX, dist, dir)
                   catcher == getPlayerAtPosition(opened, landPos)
                   landed == IF catcher # 0 /\ teamSide(catcher) = receiving
                                /\ opened.players[catcher].state = "STANDING"
                             THEN { o.s : o \in call("resolveCatch", <<opened, catcher, 0>>) }
                             ELSE { [opened EXCEPT !.ball = onGround(landPos)] }
               IN { [y EXCEPT !.phase = "PLAY", !.weather = weatherFromRoll(w)] :
                    y \in landed, w \in TwoD6 } :
               d \in D6, dir \in D8 }

\* the kickoff the simulator was asked for, over the dice of the kick
doKickoff(s, useFullKickoff, kicks) ==
    IF useFullKickoff
    THEN UNION { resolveKickoff(s, k[1], k[2], k[3]) : k \in kicks }
    ELSE simpleKickoff(s)

call(f, a) ==
    CASE f = "attemptRoll" -> attemptRoll(a[1], a[2], a[3], a[4], a[5], a[6])
      [] f = "resolveInjuryRoll" -> resolveInjuryRoll(a[1], a[2], a[3])
      [] f = "resolveArmourAndInjury" -> resolveArmourAndInjury(a[1], a[2], a[3])
      [] f = "resolveCrowdSurf" -> resolveCrowdSurf(a[1], a[2])
      [] f = "blockOnce" -> blockOnce(a[1], a[2], a[3])
      [] f = "resolveCatch" -> resolveCatch(a[1], a[2], a[3])
      [] f = "landAt" -> landAt(a[1], a[2], a[3], a[4])
      [] f = "resolveBounce" -> resolveBounce(a[1], a[2], a[3], a[4])
      [] f = "resolveThrowIn" -> resolveThrowIn(a[1], a[2], a[3])
      [] f = "handleBallOnPlayerDown" -> handleBallOnPlayerDown(a[1], a[2])
      [] f = "fallAt" -> fallAt(a[1], a[2], a[3])
      [] f = "resolveMoveStep" -> resolveMoveStep(a[1], a[2], a[3])
      [] f = "resolveStandUp" -> resolveStandUp(a[1], a[2])
      [] f = "resolvePushback" -> resolvePushback(a[1], a[2], a[3], a[4])
      [] f = "armourThenBall" -> armourThenBall(a[1], a[2], a[3])
      [] f = "resolveBlock" -> resolveBlock(a[1], a[2], a[3], a[4])
      [] f = "passLanding" -> passLanding(a[1], a[2], a[3], a[4])
      [] f = "ttmLanding" -> ttmLanding(a[1], a[2], a[3], a[4])
      [] f = "explode" -> explode(a[1], a[2], a[3], a[4])
      [] f = "ballAndChainSteps" -> ballAndChainSteps(a[1], a[2], a[3])
      [] f = "blitzApproach" -> blitzApproach(a[1], a[2], a[3])
      [] f = "executeAction" -> executeAction(a[1], a[2])
      [] f = "doKickoff" -> doKickoff(a[1], a[2], a[3])

(***************************************************************************)
(* Play from mid-half positions: one decision at a time, any enumerated    *)
(* action, resolved by executeAction over every outcome of the dice.       *)
(***************************************************************************)
NoAction == Action("NONE", -1, -1, OffGrid)
NoTurns == [HOME |-> 0, AWAY |-> 0]

\* by how much the side's reroll pool is smaller in b than in a
rerollsSpent(a, b, side) ==
    IF getTeamState(b, side).rerolls < getTeamState(a, side).rerolls
    THEN getTeamState(a, side).rerolls - getTeamState(b, side).rerolls ELSE 0

\* the side's turn began when the step before this one ended
beganLastStep(side) ==
    last.kind = "action" /\ last.endTurns > 0 /\ state.activeTeam = side

\* sim.spent: rerolls a side has spent since its turn last began
spentAfter(before, after, startsIn) ==
    [side \in {"HOME", "AWAY"} |->
        (IF side \in startsIn \/ beganLastStep(side) THEN 0 ELSE sim.spent[side])
        + rerollsSpent(before, after, side)]

\* figures <<id, x, y, state>> on the pitch; everybody else has been knocked out
Scene(home, away, half, active, homeTurn, awayTurn, figures, ball) ==
    LET kicking == IF half = 1 THEN "AWAY" ELSE "HOME"
        placed(p, f) ==
            IF f = {} THEN [p EXCEPT !.position = OffGrid, !.state = "KO"]
            ELSE LET g == CHOOSE x \in f : TRUE
                 IN [p EXCEPT !.position = Pos(g[2], g[3]), !.state = g[4]]
        staged(base) ==
            [base EXCEPT
                !.half = half, !.phase = "PLAY", !.activeTeam = active,
                !.kickingTeam = kicking,
                !.homeTeam.turnNumber = homeTurn, !.awayTeam.turnNumber = awayTurn,
                !.ball = ball,
                !.players = [i \in Ids |-> placed(@[i], { f \in figures : f[1] = i })]]
    IN staged(setupHalf(GameState, getRosterByName(home), getRosterByName(away), kicking))

\* a blitzer beside a Stand Firm deathroller and a slayer, a loose ball
StandFirmScene(active) ==
    Scene("human", "dwarf", 1, active, 3, IF active = "HOME" THEN 2 ELSE 3,
          { <<2, 10, 7, "STANDING">>, <<3, 7, 7, "STANDING">>,
            <<16, 11, 7, "STANDING">>, <<17, 11, 8, "STANDING">> },
          onGround(Pos(9, 7)))

\* an assassin with Shadowing holds the ball next to a catcher; a blitzer is down
ShadowScene(active) ==
    Scene("human", "darkelf", 1, active, 4, IF active = "HOME" THEN 3 ELSE 4,
          { <<8, 14, 5, "STANDING">>, <<2, 16, 6, "PRONE">>,
            <<19, 15, 5, "STANDING">>, <<13, 17, 9, "STANDING">> },
          carried(Pos(15, 5), 19))

\* goblins: a bombardier with the ball, a troll beside a goblin, a fanatic
\* beside a fallen blitzer, a chainsaw beside a standing one
SecretWeaponScene ==
    Scene("goblin", "human", 1, "HOME", 2, 1,
          { <<11, 8, 7, "STANDING">>, <<6, 10, 5, "STANDING">>, <<1, 10, 6, "STANDING">>,
            <<9, 12, 10, "STANDING">>, <<10, 12, 6, "STANDING">>,
            <<13, 13, 10, "PRONE">>, <<14, 11, 6, "STANDING">> },
          carried(Pos(8, 7), 11))

\* vampires: one holds the ball between a thrall and an opponent, one is alone
BloodlustScene ==
    Scene("vampire", "human", 2, "HOME", 5, 5,
          { <<8, 12, 7, "STANDING">>, <<1, 12, 8, "STANDING">>, <<9, 5, 5, "STANDING">>,
            <<13, 13, 7, "STANDING">> },
          carried(Pos(12, 7), 8))

\* a thrower with the ball, a neighbour, a receiver downfield, markers between
PassScene ==
    Scene("proelf", "human", 1, "HOME", 6, 5,
          { <<6, 8, 7, "STANDING">>, <<4, 9, 6, "STANDING">>, <<8, 12, 7, "STANDING">>,
            <<13, 10, 7, "STANDING">>, <<19, 9, 8, "STANDING">> },
          carried(Pos(8, 7), 6))

\* the last turn of a half: the kicking side's carrier one step from the line
LastTurnScene(half) ==
    Scene("human", "human", half, IF half = 1 THEN "AWAY" ELSE "HOME", 8, 8,
          IF half = 1
          THEN { <<19, 1, 14, "STANDING">>, <<13, 3, 13, "STANDING">>, <<2, 2, 13, "STANDING">> }
          ELSE { <<8, 24, 0, "STANDING">>, <<2, 22, 1, "STANDING">>, <<13, 23, 1, "STANDING">> },
          IF half = 1 THEN carried(Pos(1, 14), 19) ELSE carried(Pos(24, 0), 8))

\* the last turn of the first half: the kicking side, its rerolls spent, has
\* its carrier beside an opponent who is on the line the opponent scores on
GoalLineScene ==
    [Scene("human", "human", 1, "AWAY", 8, 8,
           { <<19, 24, 7, "STANDING">>, <<2, 25, 7, "STANDING">>, <<13, 20, 3, "STANDING">> },
           carried(Pos(24, 7), 19))
       EXCEPT !.awayTeam.rerolls = 0]

\* a catcher in the tentacles of a beast, a rotter further off
TentaclesScene ==
    Scene("nurgle", "human", 2, "AWAY", 3, 4,
          { <<3, 12, 7, "STANDING">>, <<4, 11, 3, "STANDING">>,
            <<19, 13, 7, "STANDING">>, <<13, 15, 4, "STANDING">> },
          onGround(Pos(14, 8)))

Scenes ==
    { StandFirmScene("HOME"), StandFirmScene("AWAY"), ShadowScene("HOME"),
      ShadowScene("AWAY"), SecretWeaponScene, BloodlustScene, PassScene,
      LastTurnScene(1), LastTurnScene(2), GoalLineScene, TentaclesScene }

\* sim: the simulator's locals, and per-half counts of the turns each side ended
Init ==
    /\ state \in Scenes
    /\ sim = [useFullKickoff |-> FALSE, home |-> "", away |-> "", totalActions |-> 0,
              kickoffs |-> 0, turnsEnded |-> NoTurns, riot |-> FALSE, spent |-> NoTurns]
    /\ last = [kind |-> "init", action |-> NoAction, result |-> "ok", endTurns |-> 0,
               prev |-> state]

\* the simulator's loop body for a decision: the chosen action is executed
Decide(a) ==
    /\ state.phase = "PLAY"
    /\ \E o \in call("executeAction", <<state, a>>) :
          /\ state' = o.s
          /\ last' = [kind |-> "action", action |-> a, result |-> o.v.result,
                      endTurns |-> o.v.endTurns, prev |-> state]
          /\ sim' = [sim EXCEPT !.totalActions = @ + 1,
                                !.turnsEnded[state.activeTeam] = @ + o.v.endTurns,
                                !.spent = spentAfter(state, o.s, {})]

Exec(type) ==
    /\ sim.totalActions < MaxSteps
    /\ \E a \in getAvailableActions(state) : a.type = type /\ Decide(a)

ExecMove == Exec("MOVE")
ExecBlock == Exec("BLOCK")
ExecBlitz == Exec("BLITZ")
ExecPass == Exec("PASS")
ExecHandOff == Exec("HAND_OFF")
ExecFoul == Exec("FOUL")
ExecThrowTeamMate == Exec("THROW_TEAM_MATE")
ExecBombThrow == Exec("BOMB_THROW")
ExecHypnoticGaze == Exec("HYPNOTIC_GAZE")
ExecBallAndChain == Exec("BALL_AND_CHAIN")
ExecEndTurn == Exec("END_TURN")

Next ==
    \/ ExecMove
    \/ ExecBlock
    \/ ExecBlitz
    \/ ExecPass
    \/ ExecHandOff
    \/ ExecFoul
    \/ ExecThrowTeamMate
    \/ ExecBombThrow
    \/ ExecHypnoticGaze
    \/ ExecBallAndChain
    \/ ExecEndTurn

Spec == Init /\ [][Next]_vars

(***************************************************************************)
(* A whole match under policies that always end the turn (simulateGame).   *)
(***************************************************************************)
MAX_ACTIONS == 5000

Pairings == { <<"human", "goblin">> }

\* the match as setupHalf leaves it before the opening kickoff
OpeningState(p) ==
    setupHalf([GameState EXCEPT !.half = 1, !.kickingTeam = "AWAY"],
              getRosterByName(p[1]), getRosterByName(p[2]), "AWAY")

\* the state after n end-turn decisions from s, as executeAction leaves it
RECURSIVE EndTurns(_, _)
EndTurns(s, n) ==
    IF n = 0 THEN s
    ELSE Let(EndTurns(s, n - 1), LAMBDA before :
             \* the comparison has TLC build the state before the next turn ends
             IF before = before THEN closeAction(resolveEndTurn(before)) ELSE before)

\* the simple kickoff came down on an empty cell of the receiving half in nice
\* weather
QuietKickoff(p) ==
    [openKickoff(OpeningState(p)) EXCEPT !.ball = onGround(Pos(4, 7)),
                                         !.phase = "PLAY",
                                         !.weather = weatherFromRoll(7)]

\* the end of a first half in which nothing moved: 8 turns each
FirstHalfPlayed(p) == EndTurns(QuietKickoff(p), 16)

\* a touchdown in the third turn of the side that received: figure 8 spent a
\* team reroll on the way and stands in the end zone with the ball
TouchdownScored(p) ==
    LET third == spendReroll(EndTurns(QuietKickoff(p), 4), "HOME")
        arrived == [third EXCEPT !.players[8].position = Pos(25, 7),
                                 !.players[8].hasMoved = TRUE,
                                 !.ball = carried(Pos(25, 7), 8)]
    IN closeAction(arrived)

SimLocals(p, full, spentHome) ==
    [useFullKickoff |-> full, home |-> p[1], away |-> p[2], totalActions |-> 0,
     kickoffs |-> 0, turnsEnded |-> NoTurns, riot |-> FALSE, touchback |-> FALSE,
     spent |-> [HOME |-> spentHome, AWAY |-> 0]]

InitMatch ==
    /\ \E p \in Pairings, full \in BOOLEAN :
          \/ state \in { OpeningState(p), FirstHalfPlayed(p) } /\ sim = SimLocals(p, full, 0)
          \/ state = TouchdownScored(p) /\ sim = SimLocals(p, full, 1)
    /\ last = [kind |-> "init", action |-> NoAction, result |-> "ok", endTurns |-> 0,
               prev |-> state]

\* placed: the set-up the kickoff started from, where the receiving side's turn
\* begins before the ball comes down; touchback: the full kickoff found the kick
\* outside the receiving half
KickedOff(before, placed, after, touchback) ==
    /\ state' = after
    /\ last' = [kind |-> "kickoff", action |-> NoAction, result |-> "ok", endTurns |-> 0,
                prev |-> before]
    /\ sim' = [sim EXCEPT !.kickoffs = @ + 1,
                          !.turnsEnded = NoTurns,
                          !.spent = spentAfter(placed, after, { after.activeTeam }),
                          !.riot = getTeamState(after, after.activeTeam).turnNumber # 1,
                          !.touchback = touchback]

\* the kickoff of the simulator's doKickoff from the set-up placed, one throw of
\* the kick's dice at a time
Kicks(before, placed, kicks) ==
    \E k \in kicks :
        \E after \in call("doKickoff", <<placed, sim.useFullKickoff, {k}>>) :
            KickedOff(before, placed, after,
                      /\ sim.useFullKickoff
                      /\ touchbackAt(opponent(placed.kickingTeam),
                                     kickLanding(IF placed.kickingTeam = "HOME" THEN 18 ELSE 7,
                                                 k[1], k[2])))

\* the kickoff that opens the match
firstKickoff(kicks) ==
    /\ state.phase = "COIN_TOSS"
    /\ sim.kickoffs < MaxKickoffs
    /\ Kicks(state, state, kicks)

\* at half time the kick changes sides and the second half is set up
halfTimeKickoff(kicks) ==
    /\ state.phase = "HALF_TIME"
    /\ sim.kickoffs < MaxKickoffs
    /\ LET kicking == opponent(state.kickingTeam)
           placed == setupHalf([state EXCEPT !.half = 2, !.kickingTeam = kicking],
                               getRosterByName(sim.home), getRosterByName(sim.away), kicking)
       IN Kicks(state, placed, kicks)

\* after a touchdown the kick changes sides and the half is set up again
touchdownKickoff(kicks) ==
    /\ state.phase = "TOUCHDOWN"
    /\ sim.kickoffs < MaxKickoffs
    /\ LET kicking == opponent(state.kickingTeam)
           placed == setupHalf([state EXCEPT !.kickingTeam = kicking],
                               getRosterByName(sim.home), getRosterByName(sim.away), kicking)
       IN Kicks(state, placed, kicks)

SimKickoff == firstKickoff(MatchKickDice)
SimHalfTime == halfTimeKickoff(MatchKickDice)
SimTouchdown == touchdownKickoff(MatchKickDice)

SimEndTurn ==
    /\ sim.totalActions < MAX_ACTIONS
    /\ Decide(Action("END_TURN", -1, -1, OffGrid))

NextMatch ==
    \/ SimKickoff
    \/ SimHalfTime
    \/ SimTouchdown
    \/ SimEndTurn

SpecMatch == InitMatch /\ [][NextMatch]_vars

(***************************************************************************)
(* The kickoffs of a match alone, over more of the dice of the kick.       *)
(***************************************************************************)
OpeningKick == firstKickoff(KickDice)
SecondHalfKick == halfTimeKickoff(KickDice)
RestartKick == touchdownKickoff(KickDice)

NextKickoff ==
    \/ OpeningKick
    \/ SecondHalfKick
    \/ RestartKick

SpecKickoff == InitMatch /\ [][NextKickoff]_vars

(***************************************************************************)
(* Actions the enumerator does not yield, handed to executeAction all the   *)
(* same: a move to a cell that is not adjacent, not on the grid or taken,   *)
(* and actions that name a figure which is not on the pitch.                *)
(***************************************************************************)
\* cells on the grid and one cell beyond each edge
NearGrid == { Pos(x, y) : x \in -1..PITCH_WIDTH, y \in -1..PITCH_HEIGHT }

illegalMoves(s) ==
    UNION { { Action("MOVE", i, -1, to) :
                to \in { c \in NearGrid :
                           /\ distanceTo(s.players[i].position, c) \in 1..2
                           /\ \/ distanceTo(s.players[i].position, c) # 1
                              \/ ~posIsOnPitch(c)
                              \/ getPlayerAtPosition(s, c) # 0 } } :
            i \in { j \in TeamIds(s.activeTeam) : playerIsOnPitch(s, j) } }

offPitchActions(s) ==
    LET gone == { j \in TeamIds(s.activeTeam) : ~playerIsOnPitch(s, j) }
        foes == { j \in TeamIds(opponent(s.activeTeam)) : playerIsOnPitch(s, j) }
    IN { Action("MOVE", i, -1, to) : i \in gone, to \in { Pos(0, 0), Pos(5, 5) } }
       \cup { Action("BLOCK", i, j, s.players[j].position) : i \in gone, j \in foes }
       \cup { Action("FOUL", i, j, s.players[j].position) : i \in gone, j \in foes }

\* executeAction on an action a policy made up
Submit(a) ==
    /\ state.phase = "PLAY"
    /\ sim.totalActions < MaxSteps
    /\ \E o \in call("executeAction", <<state, a>>) :
          /\ state' = o.s
          /\ last' = [kind |-> "illegal", action |-> a, result |-> o.v.result,
                      endTurns |-> o.v.endTurns, prev |-> state]
          /\ sim' = [sim EXCEPT !.totalActions = @ + 1]

SubmitIllegalMove == \E a \in illegalMoves(state) : Submit(a)
SubmitOffPitchFigure == \E a \in offPitchActions(state) : Submit(a)

NextIllegal ==
    \/ SubmitIllegalMove
    \/ SubmitOffPitchFigure

SpecIllegal == Init /\ [][NextIllegal]_vars

(***************************************************************************)
(* The flight of a loose ball, one call of resolveBounce or resolveThrowIn *)
(* at a time. sim holds the pending call: which handler, from where, and   *)
(* the bounce depth. The handlers return when no call is pending. last may *)
(* keep a mark: the configuration some earlier call started from, and it   *)
(* counts the bounces of the flight.                                       *)
(***************************************************************************)
\* bounces of one flight that are followed
MaxBounces == 7

Pending(handler, from, depth) == [pending |-> handler, from |-> from, depth |-> depth]
Returned == Pending("none", OffGrid, 0)

\* a figure on the sideline has just failed to catch: the ball is loose on its
\* cell and resolveBounce is called for it at depth 0
InitFlight ==
    /\ \E half \in {1, 2} :
          LET scene == LastTurnScene(half)
              cell == scene.ball.position
          IN /\ state = [scene EXCEPT !.ball = onGround(cell)]
             /\ sim = Pending("bounce", cell, 0)
    /\ last = [kind |-> "init", prev |-> state, call |-> sim, bounces |-> 0]

\* the ball comes down on dest: a standing figure there tries to catch it and
\* a failed catch is followed by resolveBounce at nextDepth
Lands(dest, nextDepth) ==
    LET p == getPlayerAtPosition(state, dest)
        down == [state EXCEPT !.ball = onGround(dest)]
    IN IF p # 0 /\ canAct(state.players[p].state)
       THEN \E o \in call("resolveCatch", <<down, p, 0>>) :
               /\ state' = o.s
               /\ sim' = IF o.v THEN Returned ELSE Pending("bounce", dest, nextDepth)
       ELSE state' = down /\ sim' = Returned

\* the mark stays, or is set to the configuration this call starts from
Marks(bounces) ==
    last' \in { [last EXCEPT !.bounces = bounces],
                [kind |-> "mark", prev |-> state, call |-> sim, bounces |-> bounces] }

CallBounce ==
    /\ sim.pending = "bounce"
    /\ IF sim.depth > 5
       THEN /\ state' = [state EXCEPT !.ball = onGround(sim.from)] /\ sim' = Returned
            /\ Marks(last.bounces)
       ELSE \E d8 \in D8 :
               /\ last.bounces < MaxBounces
               /\ Marks(last.bounces + 1)
               /\ LET dest == Pos(sim.from.x + scatterDirection(d8).x,
                                  sim.from.y + scatterDirection(d8).y)
                  IN IF ~posIsOnPitch(dest)
                     THEN state' = state /\ sim' = Pending("throwIn", sim.from, 0)
                     ELSE Lands(dest, sim.depth + 1)

CallThrowIn ==
    /\ sim.pending = "throwIn"
    /\ Marks(last.bounces)
    /\ \E d8 \in D8, distance \in TwoD6 :
          LET raw == Pos(sim.from.x + scatterDirection(d8).x * distance,
                         sim.from.y + scatterDirection(d8).y * distance)
              dest == IF posIsOnPitch(raw) THEN raw
                      ELSE Pos(clamp(raw.x, 0, PITCH_WIDTH - 1),
                               clamp(raw.y, 0, PITCH_HEIGHT - 1))
          IN Lands(dest, 0)

NextFlight ==
    \/ CallBounce
    \/ CallThrowIn

SpecFlight == InitFlight /\ [][NextFlight]_vars

(***************************************************************************)
(* Macro enumerator (macro_actions.h, macro_actions.cpp)                   *)
(***************************************************************************)
Macro(type, playerId, targetId, targetPos) == Action(type, playerId, targetId, targetPos)

endzoneX(side) == IF side = "HOME" THEN PITCH_WIDTH - 1 ELSE 0

distToEndzone(pos, side) == Abs(pos.x - endzoneX(side))

forwardDx(side) == IF side = "HOME" THEN 1 ELSE -1

\* the ball carrier of the side to move; 0 stands for nullptr
findCarrier(s) ==
    IF ~s.ball.isHeld \/ s.ball.carrierId <= 0 THEN 0
    ELSE IF teamSide(s.ball.carrierId) # s.activeTeam THEN 0
    ELSE IF ~playerIsOnPitch(s, s.ball.carrierId) THEN 0
    ELSE s.ball.carrierId

isFreeToAct(s, id) == playerCanAct(s, id) /\ ~s.players[id].hasMoved

getBlockDiceCount(s, att, def, isBlitz) ==
    LET attST == s.players[att].stats.strength
                 + (IF isBlitz /\ hasSkill(s, att, "Horns") THEN 1 ELSE 0)
        defST == s.players[def].stats.strength
        attAssists == countAssists(s, s.players[def].position, teamSide(att), att, def, def)
        defAssists == countAssists(s, s.players[att].position, teamSide(def), def, att, att)
        info == getBlockDiceInfo(attST + attAssists, defST + defAssists)
    IN IF info.attackerChooses THEN info.count ELSE -info.count

\* the standing opponents beside a figure
standingEnemiesBeside(s, id) ==
    { q \in Ids : /\ playerIsOnPitch(s, q)
                  /\ teamSide(q) # teamSide(id)
                  /\ s.players[q].state = "STANDING"
                  /\ s.players[q].position \in AdjSet(s.players[id].position) }

\* the macros of the vector apart from the END_TURN it begins with
macrosOfFigures(s) ==
    LET mySide == s.activeTeam
        myTeam == getTeamState(s, mySide)
        mine == { i \in TeamIds(mySide) : playerIsOnPitch(s, i) }
        theirs == { i \in TeamIds(opponent(mySide)) : playerIsOnPitch(s, i) }
        standing == { d \in theirs : s.players[d].state = "STANDING" }
        carrier == findCarrier(s)
        iHaveBall == carrier # 0
        ballOnGround == ~s.ball.isHeld /\ posIsOnPitch(s.ball.position)
        free == { i \in mine : isFreeToAct(s, i) /\ ~hasSkill(s, i, "BallAndChain") }
        cpos == s.players[carrier].position
        dist == distToEndzone(cpos, mySide)
        maxReach == s.players[carrier].movementRemaining + 2
        carrierActs == iHaveBall /\ playerCanAct(s, carrier)
        score == IF carrierActs /\ dist <= maxReach /\ dist > 0
                 THEN { Macro("SCORE", carrier, -1, OffGrid) } ELSE {}
        advance == IF carrierActs /\ s.players[carrier].movementRemaining > 0
                      /\ dist > maxReach
                   THEN { Macro("ADVANCE", carrier, -1, OffGrid) } ELSE {}
        cage == IF iHaveBall /\ (free \ {carrier}) # {}
                THEN { Macro("CAGE", carrier, -1, OffGrid) } ELSE {}
        blitzScore(b, d) ==
            getBlockDiceCount(s, b, d, TRUE) * 2
            + (IF s.players[d].position.y = 0 \/ s.players[d].position.y = PITCH_HEIGHT - 1
               THEN 3 ELSE 0)
            + (IF iHaveBall /\ distanceTo(s.players[d].position, cpos) <= 2 THEN 2 ELSE 0)
            + (IF s.ball.isHeld /\ s.ball.carrierId = d THEN 5 ELSE 0)
        pairs == free \X standing
        before(p, q) == p[1] < q[1] \/ (p[1] = q[1] /\ p[2] < q[2])
        bestPair == CHOOSE p \in pairs :
                       \A q \in pairs :
                          \/ blitzScore(q[1], q[2]) < blitzScore(p[1], p[2])
                          \/ /\ blitzScore(q[1], q[2]) = blitzScore(p[1], p[2])
                             /\ ~before(q, p)
        blitz == IF ~myTeam.blitzUsedThisTurn /\ pairs # {}
                 THEN { Macro("BLITZ", -1, bestPair[2], OffGrid) } ELSE {}
        xDist(d) == Abs(s.players[d].position.x - cpos.x)
        yDiff(d) == Abs(s.players[d].position.y - cpos.y)
        blockers == { d \in standing :
                        /\ distToEndzone(s.players[d].position, mySide) < dist
                        /\ yDiff(d) <= 2
                        /\ xDist(d) <= 2 /\ xDist(d) + yDiff(d) <= 3 }
        bestBlocker == CHOOSE d \in blockers :
                          \A e \in blockers :
                             \/ xDist(e) + yDiff(e) > xDist(d) + yDiff(d)
                             \/ xDist(e) + yDiff(e) = xDist(d) + yDiff(d) /\ d <= e
        blitzAndScore ==
            IF carrierActs /\ ~myTeam.blitzUsedThisTurn /\ dist > 0 /\ dist <= maxReach + 3
               /\ blockers # {}
            THEN { Macro("BLITZ_AND_SCORE", carrier, bestBlocker, OffGrid) } ELSE {}
        actors == { i \in mine : playerCanAct(s, i) /\ ~hasSkill(s, i, "BallAndChain") }
        block == { Macro("BLOCK", p[1], p[2], OffGrid) :
                     p \in { q \in actors \X standing :
                               /\ q[2] \in standingEnemiesBeside(s, q[1])
                               /\ getBlockDiceCount(s, q[1], q[2], FALSE) >= 2 } }
        nearest == CHOOSE i \in free :
                      \A j \in free :
                         LET di == distanceTo(s.players[i].position, s.ball.position)
                             dj == distanceTo(s.players[j].position, s.ball.position)
                         IN dj > di \/ (dj = di /\ i <= j)
        pickup == IF ballOnGround /\ free # {}
                  THEN { Macro("PICKUP", nearest, -1, s.ball.position) } ELSE {}
        pass == IF carrierActs /\ ~myTeam.passUsedThisTurn
                THEN { Macro("PASS_ACTION", carrier, t, OffGrid) :
                         t \in { i \in mine \ {carrier} :
                                   /\ s.players[i].state = "STANDING"
                                   /\ distanceTo(cpos, s.players[i].position) <= 10
                                   /\ distanceTo(cpos, s.players[i].position) >= 1
                                   /\ distToEndzone(s.players[i].position, mySide) < dist } }
                ELSE {}
        downBeside(f) ==
            { q \in theirs : /\ s.players[q].state \in {"PRONE", "STUNNED"}
                             /\ s.players[q].position \in AdjSet(s.players[f].position) }
        around(f) == getAdjacent(s.players[f].position)
        firstDown(f) ==
            CHOOSE q \in downBeside(f) :
                \E k \in 1..8 :
                    /\ around(f)[k] = s.players[q].position
                    /\ \A r \in downBeside(f), j \in 1..(k - 1) :
                          around(f)[j] # s.players[r].position
        foul == IF myTeam.foulUsedThisTurn THEN {}
                ELSE { Macro("FOUL", f, firstDown(f), OffGrid) :
                         f \in { a \in actors : downBeside(a) # {} } }
        myEndzone == endzoneX(opponent(mySide))
        movers == { i \in free : /\ ~(iHaveBall /\ i = carrier)
                                 /\ standingEnemiesBeside(s, i) = {} }
        fast == { i \in movers : s.players[i].stats.movement >= 6 }
        ballPos == IF posIsOnPitch(s.ball.position) THEN s.ball.position
                   ELSE Pos(endzoneX(mySide), 7)
        target(i) ==
            IF ballOnGround THEN s.ball.position
            ELSE IF iHaveBall
            THEN IF distanceTo(s.players[i].position, cpos) <= 3
                 THEN Pos(cpos.x + forwardDx(mySide) * 2, cpos.y)
                 ELSE cpos
            ELSE IF fast # {} /\ i = MinOf(fast)
            THEN Pos(myEndzone, 7)
            ELSE Pos((ballPos.x + myEndzone) \div 2, Max2(1, Min2(13, 3 + (i % 9))))
        reposition == { Macro("REPOSITION", i, -1, target(i)) : i \in movers }
    IN score \cup advance \cup cage \cup blitz \cup blitzAndScore \cup block \cup pickup
       \cup pass \cup foul \cup reposition

EndTurnMacro == Macro("END_TURN", -1, -1, OffGrid)

getAvailableMacros(s) ==
    IF s.phase # "PLAY" THEN {} ELSE {EndTurnMacro} \cup macrosOfFigures(s)

(***************************************************************************)
(* The primitive tree search (mcts.cpp), followed through two searches     *)
(* that start from the same state with the same configuration and equally  *)
(* seeded dice.  Equal dice give both searches the same selection and the   *)
(* same evaluation in the same iteration; each reads the wall clock for     *)
(* itself.                                                                 *)
(***************************************************************************)
\* iterations between two readings of the clock: (iterations & 63) == 0
TimeCheckPeriod == 64
\* largest iteration limit a search is configured with
MaxIterations == 65

EndTurnAction == Action("END_TURN", -1, -1, OffGrid)

RECURSIVE listed(_)
listed(S) ==
    IF S = {} THEN << >>
    ELSE LET a == CHOOSE x \in S : TRUE IN <<a>> \o listed(S \ {a})

\* the enumerator's vector: END_TURN first, the figures' actions behind it (in
\* an order that is fixed, though not the source's)
legalList(s) ==
    LET all == getAvailableActions(s)
    IN IF all = {} THEN << >> ELSE <<EndTurnAction>> \o listed(all \ {EndTurnAction})

MCTSConfig(policy, maxChildren, maxIterations) ==
    [policy |-> policy, maxChildren |-> maxChildren, maxIterations |-> maxIterations]

MCTSNode(action) == [action |-> action, visits |-> 0]

\* the root's children: every action, or with a policy network and more actions
\* than maxChildren the first maxChildren of the actions ranked by prior
expand(actions, config, ranked) ==
    LET n == Len(actions)
        kept == IF config.maxChildren > 0 /\ n > config.maxChildren /\ config.policy
                THEN SubSeq(ranked, 1, config.maxChildren)
                ELSE actions
    IN [i \in DOMAIN kept |-> MCTSNode(kept[i])]

\* index of the first child no other child has more visits than; 0 for nullptr
mostVisitedChild_First(children) == IF children = << >> THEN 0 ELSE 1

mostVisitedChild(children) ==
    IF children = << >> THEN 0
    ELSE CHOOSE i \in DOMAIN children :
            /\ \A j \in DOMAIN children : children[j].visits <= children[i].visits
            /\ \A j \in 1..(i - 1) : children[j].visits < children[i].visits

\* the root children select may descend into: bestChild takes the first
\* unvisited child (its score is the largest double); among visited children, and
\* under bestChildPUCT, the scores depend on the evaluations, so any child may win
selectRoot(children, config) ==
    LET unvisited == { i \in DOMAIN children : children[i].visits = 0 }
    IN IF ~config.policy /\ unvisited # {} THEN { MinOf(unvisited) } ELSE DOMAIN children

\* whether the replay to the selected node can stop short: only a path of two
\* or more actions is checked between its actions, and a child has children of
\* its own from its second visit on
replayCanFail(child) == child.visits >= 2

\* backpropagate whose walk misses the root's child
backpropagate_PastChild(children, c) == children

\* backpropagate that counts the visit and clears the counts of the siblings
backpropagate_ClearsSiblings(children, c) ==
    [i \in DOMAIN children |->
        [children[i] EXCEPT !.visits = IF i = c THEN @ + 1 ELSE 0]]

\* backpropagate as far as the root's children go: the walk from the evaluated
\* node up to the root passes the selected root child and counts a visit there
backpropagate(children, c) == [children EXCEPT ![c].visits = @ + 1]

clockRead_EveryIteration(iterations) == iterations > 0

\* the iterations before which the clock is read
clockRead(iterations) == iterations % TimeCheckPeriod = 0 /\ iterations > 0

SearchRuns == {"first", "second"}

\* what search returns once its loop is left
searchResult(children, actions) ==
    LET best == mostVisitedChild(children)
    IN IF best # 0 THEN children[best].action ELSE actions[1]

\* every figure of the side to move has acted: the turn is played out
PlayedOut(s) ==
    [s EXCEPT !.players = [i \in Ids |->
        IF teamSide(i) = s.activeTeam
        THEN [s.players[i] EXCEPT !.hasMoved = TRUE, !.hasActed = TRUE]
        ELSE s.players[i]]]

\* a fresh lineman in his own corner, shut in by three team-mates who have
\* acted, and the opposing carrier far away
CornerScene ==
    LET scene == Scene("human", "human", 1, "HOME", 4, 3,
                       { <<1, 0, 0, "STANDING">>, <<2, 1, 0, "STANDING">>,
                         <<3, 0, 1, "STANDING">>, <<4, 1, 1, "STANDING">>,
                         <<13, 20, 7, "STANDING">> },
                       carried(Pos(20, 7), 13))
    IN [scene EXCEPT !.players = [i \in Ids |->
           IF i \in {2, 3, 4}
           THEN [scene.players[i] EXCEPT !.hasMoved = TRUE, !.hasActed = TRUE]
           ELSE scene.players[i]]]

SearchRoots == { GoalLineScene, PlayedOut(GoalLineScene), CornerScene }

SearchConfigs ==
    { MCTSConfig(FALSE, 0, 0), MCTSConfig(FALSE, 0, 3), MCTSConfig(TRUE, 2, 2),
      MCTSConfig(TRUE, 2, MaxIterations) }

\* the searchers and the configurations each is run with
Searchers ==
    ({"MCTSSearch"} \X SearchConfigs)
    \cup ({"MacroMCTSSearch"} \X { MCTSConfig(FALSE, 0, 0), MCTSConfig(FALSE, 0, 3) })

\* lastIterations_ as the call finds it: 0 in a new searcher, otherwise what
\* the search before reported; the long searches are followed from a new
\* searcher only
PreviousIterations == {0, 3}

\* the macro vector: END_TURN first
macroList(s) ==
    LET all == getAvailableMacros(s)
    IN IF all = {} THEN << >> ELSE <<EndTurnMacro>> \o listed(all \ {EndTurnMacro})

\* the macro searcher's expand: every macro becomes a child
expandMacros(macros) == [i \in DOMAIN macros |-> MCTSNode(macros[i])]

\* the return for a single choice, with the counter as it was
singleChoice_KeepsCount(run, choice) == [run EXCEPT !.returned = TRUE, !.action = choice]

\* the return for a single choice: nothing was searched
singleChoice(run, choice) ==
    [run EXCEPT !.returned = TRUE, !.action = choice, !.lastIterations = 0]

\* the orders by prior of the policy networks considered, as far as they count
Rankings(actions) ==
    IF Len(actions) < 3 THEN { actions }
    ELSE { <<actions[1], actions[2]>>, <<actions[3], actions[1]>> }

\* actions: the vector search fills from its enumerator, actions or macros;
\* legal: the legal actions of the root; rootVisits: the root's visit count, 1
\* when the root is made; skipped: the iterations whose replay stopped short
SearchLocals(searcher, config, ranked, previous) ==
    [searcher |-> searcher, config |-> config, ranked |-> ranked, pc |-> "called",
     actions |-> << >>, legal |-> << >>, previous |-> previous,
     runs |-> [r \in SearchRuns |->
                 [children |-> << >>, iterations |-> 0, returned |-> FALSE,
                  action |-> NoAction, lastIterations |-> previous,
                  rootVisits |-> 1, skipped |-> 0]]]

InitSearch ==
    /\ state \in SearchRoots
    /\ \E setup \in Searchers, ranked \in Rankings(legalList(state)) :
          \E previous \in IF setup[2].maxIterations > 3 THEN {0} ELSE PreviousIterations :
             sim = SearchLocals(setup[1], setup[2], ranked, previous)
    /\ last = [kind |-> "init", action |-> NoAction, result |-> "ok", endTurns |-> 0,
               prev |-> state]

Returns(r, action) ==
    sim' = [sim EXCEPT !.runs[r].returned = TRUE, !.runs[r].action = action,
                       !.runs[r].lastIterations = sim.runs[r].iterations]

\* search up to its loop: the early returns, or the root and its expansion
SearchBegins ==
    /\ sim.pc = "called"
    /\ \E legal \in { legalList(state) } :
       \E actions \in { IF sim.searcher = "MacroMCTSSearch" THEN macroList(state) ELSE legal } :
       LET macro == sim.searcher = "MacroMCTSSearch"
       IN IF Len(actions) = 0
          THEN sim' = [sim EXCEPT !.pc = "returned", !.actions = actions, !.legal = legal,
                          !.runs = [r \in SearchRuns |->
                                      [@[r] EXCEPT !.returned = TRUE,
                                                   !.action = EndTurnAction]]]
          ELSE IF Len(actions) = 1
          THEN sim' = [sim EXCEPT !.pc = "returned", !.actions = actions, !.legal = legal,
                          !.runs = [r \in SearchRuns |-> singleChoice(@[r], actions[1])]]
          ELSE sim' = [sim EXCEPT !.pc = "searching", !.actions = actions, !.legal = legal,
                          !.runs = [r \in SearchRuns |->
                                      [@[r] EXCEPT !.children =
                                          IF macro THEN expandMacros(actions)
                                          ELSE expand(actions, sim.config, sim.ranked)]]]
    /\ UNCHANGED <<state, last>>

running == { r \in SearchRuns : ~sim.runs[r].returned }

\* one iteration of the loop, the same in every search still running: select,
\* replay, evaluate, backpropagate
Iterate ==
    /\ sim.pc = "searching"
    /\ running # {}
    /\ \A r \in running : sim.runs[r].iterations < sim.config.maxIterations
    /\ LET run == sim.runs[CHOOSE r \in running : TRUE]
       IN \E c \in (IF sim.searcher = "MacroMCTSSearch" THEN DOMAIN run.children
                    ELSE selectRoot(run.children, sim.config)),
             replayed \in BOOLEAN :
             /\ replayed \/ replayCanFail(run.children[c])
             /\ sim' = [sim EXCEPT !.runs = [r \in SearchRuns |->
                          IF r \notin running THEN @[r]
                          ELSE [@[r] EXCEPT
                                  !.iterations = @ + 1,
                                  !.children = IF replayed THEN backpropagate(@, c)
                                               ELSE @,
                                  !.rootVisits = IF replayed THEN @ + 1 ELSE @,
                                  !.skipped = IF replayed THEN @ ELSE @ + 1]]]
    /\ UNCHANGED <<state, last>>

\* a search finds its time budget used up and leaves the loop
ClockExpires ==
    /\ sim.pc = "searching"
    /\ sim.searcher = "MCTSSearch"
    /\ \E r \in running :
          /\ sim.runs[r].iterations < sim.config.maxIterations
          /\ clockRead(sim.runs[r].iterations)
          /\ Returns(r, searchResult(sim.runs[r].children, sim.actions))
    /\ UNCHANGED <<state, last>>

\* a search has run its iterations
LimitReached ==
    /\ sim.pc = "searching"
    /\ \E r \in running :
          /\ sim.runs[r].iterations >= sim.config.maxIterations
          /\ Returns(r, searchResult(sim.runs[r].children, sim.actions))
    /\ UNCHANGED <<state, last>>

NextSearch ==
    \/ SearchBegins
    \/ Iterate
    \/ ClockExpires
    \/ LimitReached

SpecSearch == InitSearch /\ [][NextSearch]_vars

(***************************************************************************)
(* The stateful macro policy (macro_mcts.cpp, MacroMCTSPolicy) under the   *)
(* simulator's loop.  The macro search and the expansion of the chosen     *)
(* macro into a plan are not followed: a plan is any short sequence over   *)
(* actions that are legal now or may become legal as the plan proceeds.    *)
(***************************************************************************)
\* calls of the policy in one run
MaxPolicyCalls == 2
\* longest plan an expansion gives
MaxPlan == 2

validated_Always(planned, available) == TRUE

\* the loop that looks the planned action up among the available ones
validated(planned, available) ==
    \E a \in available :
        /\ a.type = planned.type /\ a.playerId = planned.playerId
        /\ a.targetId = planned.targetId /\ a.target = planned.target

\* the actions greedyPolicy may return, by its priorities; which one of several
\* is a matter of the enumeration order and of a die
greedyPolicy(s, available) ==
    LET mySide == s.activeTeam
        carrier == s.ball.carrierId
        targetX == IF mySide = "HOME" THEN 25 ELSE 0
        runsIn == IF s.ball.isHeld /\ carrier > 0
                     /\ teamSide(carrier) = mySide /\ s.players[carrier].state = "STANDING"
                  THEN { a \in available :
                           /\ a.type = "MOVE" /\ a.playerId = carrier
                           /\ IF targetX > s.players[carrier].position.x
                              THEN a.target.x > s.players[carrier].position.x
                              ELSE a.target.x < s.players[carrier].position.x }
                  ELSE {}
        moves == { a \in available : a.type = "MOVE" }
        loose == ~s.ball.isHeld /\ posIsOnPitch(s.ball.position)
        pickups == IF loose THEN { a \in moves : a.target = s.ball.position } ELSE {}
        nearest == IF loose /\ moves # {}
                   THEN LET best == MinOf({ distanceTo(a.target, s.ball.position) : a \in moves })
                        IN { a \in moves : distanceTo(a.target, s.ball.position) = best }
                   ELSE {}
        blocks == { a \in available : a.type = "BLOCK" }
        blitzes == { a \in available : a.type = "BLITZ" }
    IN IF available = {} THEN { Action("END_TURN", -1, -1, OffGrid) }
       ELSE IF runsIn # {} THEN runsIn
       ELSE IF pickups # {} THEN pickups
       ELSE IF nearest # {} THEN nearest
       ELSE IF blocks # {} THEN blocks
       ELSE IF blitzes # {} THEN blitzes
       ELSE IF moves # {} THEN moves
       ELSE { Action("END_TURN", -1, -1, OffGrid) }

\* the figure the plans are about: the carrier of the side to move, or its
\* first figure on the pitch
planFigure(s) ==
    IF s.ball.isHeld /\ s.ball.carrierId > 0 /\ teamSide(s.ball.carrierId) = s.activeTeam
    THEN s.ball.carrierId
    ELSE MinOf({ i \in TeamIds(s.activeTeam) : playerIsOnPitch(s, i) } \cup {23})

\* actions a plan is made of: ending the turn, the figure's steps along the pitch
\* one and two cells from where it stands, and its blocks
PlanActions(s, available) ==
    LET id == planFigure(s)
    IN { Action("END_TURN", -1, -1, OffGrid) }
       \cup (IF id = 23 THEN {}
             ELSE { Action("MOVE", id, -1, Pos(s.players[id].position.x + dx,
                                                s.players[id].position.y)) :
                      dx \in {-2, -1, 1, 2} }
                  \cup { a \in available : a.type = "BLOCK" /\ a.playerId = id })

Plans(s, available) ==
    UNION { [1..n -> PlanActions(s, available)] : n \in 0..MaxPlan }

PolicyLocals ==
    [currentPlan |-> << >>, planIndex |-> 0, calls |-> 0, pc |-> "idle",
     available |-> {}, queued |-> NoAction, searched |-> FALSE, returned |-> NoAction]

\* later in the turn: the figure has blitzed
Blitzed(s, id) == acted(markBlitzUsed(s, id), id)

PolicyRoots == { Blitzed(GoalLineScene, 13), Blitzed(LastTurnScene(2), 2) }

InitPolicy ==
    /\ state \in PolicyRoots
    /\ sim = PolicyLocals
    /\ last = [kind |-> "init", action |-> NoAction, result |-> "ok", endTurns |-> 0,
               prev |-> state]

\* the policy is asked for an action, as the simulator does when the
\* enumerator yields any
PolicyCall ==
    /\ sim.pc = "idle"
    /\ sim.calls < MaxPolicyCalls
    /\ \E available \in { getAvailableActions(state) } :
       LET queued == IF sim.planIndex < Len(sim.currentPlan)
                     THEN sim.currentPlan[sim.planIndex + 1] ELSE NoAction
           called == [sim EXCEPT !.calls = @ + 1, !.pc = "returned",
                                 !.available = available, !.queued = queued]
       IN /\ available # {}
          /\ IF queued # NoAction /\ validated(queued, available)
             THEN sim' = [called EXCEPT !.planIndex = @ + 1, !.searched = FALSE,
                                        !.returned = queued]
             ELSE \E plan \in Plans(state, available) :
                     IF plan = << >>
                     THEN sim' = [called EXCEPT !.currentPlan = << >>, !.planIndex = 0,
                                      !.searched = TRUE,
                                      !.returned = Action("END_TURN", -1, -1, OffGrid)]
                     ELSE IF validated(plan[1], available)
                     THEN sim' = [called EXCEPT !.currentPlan = plan, !.planIndex = 1,
                                      !.searched = TRUE, !.returned = plan[1]]
                     ELSE \E a \in greedyPolicy(state, available) :
                             sim' = [called EXCEPT !.currentPlan = << >>, !.planIndex = 0,
                                         !.searched = TRUE, !.returned = a]
    /\ UNCHANGED <<state, last>>

\* the simulator executes the chosen action
PolicyExecuted ==
    /\ sim.pc = "returned"
    /\ \E o \in call("executeAction", <<state, sim.returned>>) :
          /\ state' = o.s
          /\ last' = [kind |-> "action", action |-> sim.returned, result |-> o.v.result,
                      endTurns |-> o.v.endTurns, prev |-> state]
    /\ sim' = [sim EXCEPT !.pc = "idle"]

NextPolicy ==
    \/ PolicyCall
    \/ PolicyExecuted

SpecPolicy == InitPolicy /\ [][NextPolicy]_vars

(***************************************************************************)
(* The blitz of the action resolver (action_resolver.cpp), one pass of its *)
(* approach loop at a time. sim holds the resolver's position, the action, *)
(* and what the passes so far did: steps counts the calls of               *)
(* resolveMoveStep, from is the blitzer's cell before the last call,       *)
(* trapped tells that some call was stopped by tentacles and afterTrap     *)
(* counts the calls made after that; clean tells that every call returned  *)
(* success after moving the figure; blocked tells that the block was       *)
(* thrown.                                                                 *)
(***************************************************************************)
\* passes of the approach loop that are followed
MaxApproachSteps == 12

\* a lineman on the sideline three cells from an opposing carrier who is on
\* the sideline too, shielded by three of the lineman's team-mates
SidelineScene ==
    Scene("human", "human", 1, "HOME", 4, 3,
          { <<1, 2, 0, "STANDING">>, <<5, 4, 0, "STANDING">>,
            <<6, 4, 1, "STANDING">>, <<7, 5, 1, "STANDING">>,
            <<13, 5, 0, "STANDING">> },
          carried(Pos(5, 0), 13))

BlitzRoots == { TentaclesScene, SidelineScene, GoalLineScene, SecretWeaponScene }

BlitzLocals ==
    [pc |-> "resolveAction", action |-> NoAction, steps |-> 0, from |-> OffGrid,
     trapped |-> FALSE, afterTrap |-> 0, clean |-> TRUE, blocked |-> FALSE,
     result |-> "none"]

InitBlitz ==
    /\ state \in BlitzRoots
    /\ sim = BlitzLocals
    /\ last = [kind |-> "init", action |-> NoAction, result |-> "ok", endTurns |-> 0,
               prev |-> state]

BlitzReturns(s, result, clean) ==
    /\ state' = s
    /\ sim' = [sim EXCEPT !.pc = "returned", !.result = result, !.clean = @ /\ clean]

\* resolveAction for a blitz the enumerator yields, up to the approach loop:
\* the big-guy check, the marks, the standing up
BlitzBegins ==
    /\ sim.pc = "resolveAction"
    /\ \E a \in { b \in getAvailableActions(state) : b.type = "BLITZ" } :
          LET gated == hasBigGuySkill(state, a.playerId)
              checked == IF gated THEN resolveBigGuyCheck(state, a.playerId, a.type)
                         ELSE { R(state, [actionBlocked |-> FALSE, proceed |-> TRUE]) }
          IN \E o \in checked :
                IF o.v.actionBlocked /\ ~o.v.proceed
                THEN /\ state' = o.s
                     /\ sim' = [sim EXCEPT !.pc = "returned", !.action = a,
                                           !.result = "ok", !.clean = FALSE]
                ELSE LET used == markBlitzUsed(o.s, a.playerId)
                     IN IF used.players[a.playerId].state = "PRONE"
                        THEN \E u \in call("resolveStandUp", <<used, a.playerId>>) :
                                /\ state' = u.s
                                /\ sim' = IF u.v # "ok"
                                          THEN [sim EXCEPT !.pc = "returned", !.action = a,
                                                           !.result = u.v, !.clean = FALSE]
                                          ELSE [sim EXCEPT !.pc = "approach", !.action = a]
                        ELSE /\ state' = used
                             /\ sim' = [sim EXCEPT !.pc = "approach", !.action = a]
    /\ UNCHANGED last

blitzDistance ==
    distanceTo(state.players[sim.action.playerId].position,
               state.players[sim.action.targetId].position)

\* one pass of the while loop: the reachability test, the greedy choice of the
\* next cell, resolveMoveStep and the tests of its result
ApproachStep ==
    /\ sim.pc = "approach"
    /\ blitzDistance > 1
    /\ LET id == sim.action.playerId
           from == state.players[id].position
           targetPos == state.players[sim.action.targetId].position
           bestNext == blitzNextStep(state, id, targetPos)
       IN IF ~canReachAdjacentTo(state, id, targetPos) THEN BlitzReturns(state, "fail", TRUE)
          ELSE IF bestNext.x < 0 THEN BlitzReturns(state, "fail", TRUE)
          ELSE /\ sim.steps < MaxApproachSteps
               /\ \E o \in call("resolveMoveStep", <<state, id, bestNext>>) :
                     LET held == o.v = "ok" /\ o.s.players[id].position = from
                         counted == [sim EXCEPT
                                       !.steps = @ + 1, !.from = from,
                                       !.afterTrap = IF sim.trapped THEN @ + 1 ELSE @,
                                       !.trapped = @ \/ held,
                                       !.clean = @ /\ o.v = "ok" /\ ~held]
                     IN /\ state' = o.s
                        /\ sim' = IF o.v # "ok"
                                  THEN [counted EXCEPT !.pc = "returned", !.result = o.v]
                                  ELSE IF o.s.players[id].state # "STANDING"
                                  THEN [counted EXCEPT !.pc = "returned",
                                                       !.result = "turnover"]
                                  ELSE counted
    /\ UNCHANGED last

\* the loop is left: the block, if the blitzer is beside the target
ThrowBlock ==
    /\ sim.pc = "approach"
    /\ blitzDistance <= 1
    /\ IF blitzDistance # 1 THEN BlitzReturns(state, "fail", TRUE)
       ELSE \E o \in call("resolveBlock",
                          <<state, [attackerId |-> sim.action.playerId,
                                    targetId |-> sim.action.targetId,
                                    isBlitz |-> TRUE, hornsBonus |-> TRUE], FALSE, FALSE>>) :
               /\ state' = o.s
               /\ sim' = [sim EXCEPT !.pc = "returned", !.result = o.v, !.blocked = TRUE]
    /\ UNCHANGED last

NextBlitz ==
    \/ BlitzBegins
    \/ ApproachStep
    \/ ThrowBlock

SpecBlitz == InitBlitz /\ [][NextBlitz]_vars

(***************************************************************************)
(* The pathfinder asked alone (pathfinder.cpp): a figure of a scene, in    *)
(* each of the conditions a figure on the pitch can be in, is asked        *)
(* whether it reaches a cell beside another figure. sim holds the question *)
(* and the answer.                                                         *)
(***************************************************************************)
\* a lineman with open ground toward two opponents, one four and one six
\* cells away, and a team-mate standing in the straight line to the nearer
PathScene ==
    Scene("human", "human", 1, "HOME", 4, 3,
          { <<1, 5, 5, "STANDING">>, <<2, 7, 5, "STANDING">>,
            <<13, 9, 5, "STANDING">>, <<14, 11, 7, "STANDING">> },
          carried(Pos(9, 5), 13))

PathRoots == { PathScene, SidelineScene }

\* the conditions the asked figure is put in
PathStates == {"STANDING", "PRONE", "STUNNED"}
PathSkills == { {}, {"JumpUp"}, {"Sprint"} }
\* most movement the asked figure has left
MaxMovementLeft == 6

PathLocals == [pc |-> "ask", id |-> 0, target |-> OffGrid, answer |-> FALSE]

InitPath ==
    /\ \E root \in PathRoots, st \in PathStates, sk \in PathSkills,
          left \in 0..MaxMovementLeft :
          state = [root EXCEPT !.players[1].state = st,
                               !.players[1].skills = sk,
                               !.players[1].movementRemaining = left]
    /\ sim = PathLocals
    /\ last = [kind |-> "init", action |-> NoAction, result |-> "ok", endTurns |-> 0,
               prev |-> state]

\* canReachAdjacentTo called for figure 1 and the cell of another figure
AskPathfinder ==
    /\ \E q \in { i \in Ids \ {1} : playerIsOnPitch(state, i) } :
          sim' = [pc |-> "answered", id |-> 1, target |-> state.players[q].position,
                  answer |-> canReachAdjacentTo(state, 1, state.players[q].position)]
    /\ UNCHANGED <<state, last>>

NextPath == AskPathfinder

SpecPath == InitPath /\ [][NextPath]_vars

(***************************************************************************)
(* A figure with Pro through the actions of one turn: its moves out of a   *)
(* tackle zone on go-for-its, its block, its pass, and the end of the turn.*)
(***************************************************************************)
\* decisions followed from the scene
MaxProSteps == 2


\* a lineman with Pro who has spent his movement, carries the ball and stands
\* beside an opponent; a team-mate to pass to
ProScene ==
    LET base == Scene("human", "human", 1, "HOME", 4, 3,
                      { <<1, 5, 5, "STANDING">>, <<2, 8, 7, "STANDING">>,
                        <<13, 6, 5, "STANDING">> },
                      carried(Pos(5, 5), 1))
    IN [base EXCEPT !.players[1].skills = @ \cup {"Pro"},
                    !.players[1].movementRemaining = 0,
                    !.players[1].hasMoved = TRUE]

InitPro ==
    /\ state = ProScene
    /\ sim = [useFullKickoff |-> FALSE, home |-> "", away |-> "", totalActions |-> 0,
              kickoffs |-> 0, turnsEnded |-> NoTurns, riot |-> FALSE, spent |-> NoTurns]
    /\ last = [kind |-> "init", action |-> NoAction, result |-> "ok", endTurns |-> 0,
               prev |-> state]

ProExec(type) ==
    /\ sim.totalActions < MaxProSteps
    /\ \E a \in getAvailableActions(state) :
          a.type = type /\ a.playerId \in {1, -1} /\ Decide(a)

ProMove == ProExec("MOVE")
ProBlock == ProExec("BLOCK")
ProPass == ProExec("PASS")
ProEndTurn == ProExec("END_TURN")

NextPro ==
    \/ ProMove
    \/ ProBlock
    \/ ProPass
    \/ ProEndTurn

SpecPro == InitPro /\ [][NextPro]_vars

(***************************************************************************)
(* The block of a Frenzy figure (block_handler.cpp), one call of           *)
(* resolveBlock at a time. sim holds the parameters of the call to come,   *)
(* the number of calls made, whether both figures stood side by side when  *)
(* the last call reached its end, and the result returned.                 *)
(***************************************************************************)
\* calls of resolveBlock that are followed in one block action
MaxBlocks == 4


\* a Frenzy lineman beside an opponent in the open; the opponent has one of
\* the skills that decide where he ends
FrenzyScene(defSkills) ==
    LET base == Scene("human", "human", 1, "HOME", 4, 3,
                      { <<1, 10, 7, "STANDING">>, <<2, 10, 8, "STANDING">>,
                        <<13, 11, 7, "STANDING">>, <<14, 12, 8, "STANDING">> },
                      carried(Pos(11, 7), 13))
    IN [base EXCEPT !.players[1].skills = @ \cup {"Frenzy"},
                    !.players[13].skills = @ \cup defSkills]

FrenzyRoots ==
    { FrenzyScene(sk) : sk \in { {}, {"Dodge"}, {"StandFirm"}, {"Fend"}, {"Block"} } }

FrenzyLocals ==
    [pc |-> "block",
     params |-> [attackerId |-> 1, targetId |-> 13,
                 isBlitz |-> FALSE, hornsBonus |-> FALSE],
     blocks |-> 0, sideBySide |-> FALSE, result |-> "none"]

InitFrenzy ==
    /\ state \in FrenzyRoots
    /\ sim = FrenzyLocals
    /\ last = [kind |-> "init", action |-> NoAction, result |-> "ok", endTurns |-> 0,
               prev |-> state]

\* one call of resolveBlock: the block, and at its end the Frenzy test that
\* makes the next call or returns
FrenzyBlock ==
    /\ sim.pc = "block"
    /\ sim.blocks < MaxBlocks
    /\ \E o \in call("blockOnce", <<state, sim.params, FALSE>>) :
          LET att == sim.params.attackerId
              def == sim.params.targetId
              atEnd == o.v \in {"end turnover", "end ok"}
              beside == /\ canAct(o.s.players[att].state)
                        /\ canAct(o.s.players[def].state)
                        /\ distanceTo(o.s.players[att].position,
                                      o.s.players[def].position) = 1
          IN IF atEnd /\ frenzyFollows(o.s, att, def, sim.blocks >= 1)
             THEN /\ state' = secondBlock(o.s, sim.params)[1]
                  /\ sim' = [sim EXCEPT !.params = secondBlock(o.s, sim.params)[2],
                                        !.blocks = @ + 1, !.sideBySide = beside]
             ELSE /\ state' = IF atEnd THEN acted(o.s, att) ELSE o.s
                  /\ sim' = [sim EXCEPT !.pc = "returned", !.blocks = @ + 1,
                                        !.result = CASE o.v = "end turnover" -> "turnover"
                                                     [] o.v = "end ok" -> "ok"
                                                     [] OTHER -> o.v]
    /\ UNCHANGED last

NextFrenzy == FrenzyBlock

SpecFrenzy == InitFrenzy /\ [][NextFrenzy]_vars

(***************************************************************************)
(* Blocks at the sideline (block_handler.cpp, injury.cpp): a defender on   *)
(* the last column with the attacker inside him, and a defender one column *)
(* in whose three pushback cells are all taken.                            *)
(***************************************************************************)
\* actions followed from a sideline scene
MaxCrowdSteps == 2

CrowdSkills ==
    { {}, {"ThickSkull"}, {"Regeneration"}, {"Stunty"}, {"Decay"}, {"StandFirm"}, {"Dodge"} }

\* the defender on the last column, the attacker beside him towards the middle
EdgeScene(defSkills) ==
    LET base == Scene("human", "human", 1, "HOME", 4, 3,
                      { <<1, 24, 7, "STANDING">>, <<2, 20, 7, "STANDING">>,
                        <<13, 25, 7, "STANDING">> },
                      carried(Pos(20, 7), 2))
    IN [base EXCEPT !.players[13].skills = @ \cup defSkills]

\* the defender one column in, three opponents behind him on the last column
ChainScene(occSkills) ==
    LET base == Scene("human", "human", 1, "HOME", 4, 3,
                      { <<1, 23, 7, "STANDING">>, <<2, 20, 7, "STANDING">>,
                        <<13, 24, 7, "STANDING">>, <<14, 25, 6, "STANDING">>,
                        <<15, 25, 7, "STANDING">>, <<16, 25, 8, "STANDING">> },
                      carried(Pos(20, 7), 2))
    IN [base EXCEPT !.players[15].skills = @ \cup occSkills]

CrowdRoots == { EdgeScene(sk) : sk \in CrowdSkills } \cup { ChainScene(sk) : sk \in CrowdSkills }

InitCrowd ==
    /\ state \in CrowdRoots
    /\ sim = [useFullKickoff |-> FALSE, home |-> "", away |-> "", totalActions |-> 0,
              kickoffs |-> 0, turnsEnded |-> NoTurns, riot |-> FALSE, spent |-> NoTurns]
    /\ last = [kind |-> "init", action |-> NoAction, result |-> "ok", endTurns |-> 0,
               prev |-> state]

CrowdExec(type) ==
    /\ sim.totalActions < MaxCrowdSteps
    /\ \E a \in getAvailableActions(state) :
          a.type = type /\ a.playerId \in {1, -1} /\ Decide(a)

CrowdBlock == CrowdExec("BLOCK")
CrowdBlitz == CrowdExec("BLITZ")
CrowdEndTurn == CrowdExec("END_TURN")

NextCrowd ==
    \/ CrowdBlock
    \/ CrowdBlitz
    \/ CrowdEndTurn

SpecCrowd == InitCrowd /\ [][NextCrowd]_vars

(***************************************************************************)
(* The replay of one path of the primitive search tree (mcts.cpp): the     *)
(* root's children are the legal actions of the root; an iteration clones  *)
(* the root, executes the stored actions of the selected path on the clone *)
(* with fresh dice, and expands the node it arrives at from the clone.     *)
(* state is the clone; sim holds the root, the stored path, the children   *)
(* of its last node, the place in the replay, and whether every action     *)
(* executed by a replay was legal where it was executed.                   *)
(***************************************************************************)
\* length of the stored path that is followed
MaxDepth == 2

\* one figure a side, side by side in a corner, the ball loose far from them
ReplayScene ==
    Scene("human", "human", 1, "HOME", 4, 3,
          { <<1, 0, 0, "STANDING">>, <<13, 1, 1, "STANDING">> },
          onGround(Pos(20, 7)))

searchOver(s) == s.phase \in {"GAME_OVER", "TOUCHDOWN", "HALF_TIME"}

InitReplay ==
    /\ state = ReplayScene
    /\ sim = [pc |-> "expanded", root |-> ReplayScene, path |-> << >>, at |-> 1,
              children |-> getAvailableActions(ReplayScene), legal |-> TRUE]
    /\ last = [kind |-> "init", action |-> NoAction, result |-> "ok", endTurns |-> 0,
               prev |-> state]

\* select: a child of the last expanded node becomes the leaf of the next
\* iteration, which starts from a fresh clone of the root
SelectChild ==
    /\ sim.pc = "expanded"
    /\ Len(sim.path) < MaxDepth
    /\ \E child \in sim.children :
          sim' = [sim EXCEPT !.pc = "replay", !.path = Append(@, child), !.at = 1,
                             !.children = {}]
    /\ state' = sim.root
    /\ UNCHANGED last

\* replayToNode: one stored action of the path, executed on the clone
ReplayStep ==
    /\ sim.pc = "replay"
    /\ sim.at <= Len(sim.path)
    /\ IF searchOver(state)
       THEN /\ sim' = [sim EXCEPT !.pc = "skipped"]
            /\ UNCHANGED <<state, last>>
       ELSE \E o \in call("executeAction", <<state, sim.path[sim.at]>>) :
               /\ state' = o.s
               /\ sim' = [sim EXCEPT !.at = @ + 1,
                                     !.legal = @ /\ sim.path[sim.at] \in getAvailableActions(state)]
               /\ last' = [kind |-> "action", action |-> sim.path[sim.at],
                           result |-> o.v.result, endTurns |-> o.v.endTurns, prev |-> state]

\* the replay has arrived: the node is expanded from the clone and its first
\* child is executed on it
ExpandLeaf ==
    /\ sim.pc = "replay"
    /\ sim.at > Len(sim.path)
    /\ LET actions == legalList(state)
       IN IF searchOver(state) \/ actions = << >>
          THEN /\ sim' = [sim EXCEPT !.pc = "expanded", !.children = {}]
               /\ UNCHANGED <<state, last>>
          ELSE \E o \in call("executeAction", <<state, actions[1]>>) :
                  /\ state' = o.s
                  /\ sim' = [sim EXCEPT !.pc = "expanded",
                                        !.children = getAvailableActions(state)]
                  /\ last' = [kind |-> "action", action |-> actions[1],
                              result |-> o.v.result, endTurns |-> o.v.endTurns,
                              prev |-> state]

NextReplay ==
    \/ SelectChild
    \/ ReplayStep
    \/ ExpandLeaf

SpecReplay == InitReplay /\ [][NextReplay]_vars

(***************************************************************************)
(* The replay of a stored path that ends in a hand-off: a team-mate steps  *)
(* out of a tackle zone to the carrier's side, and the carrier hands him   *)
(* the ball.  The hand-off was stored when the step had succeeded.         *)
(***************************************************************************)
\* a carrier who has spent his movement, and two cells from him a team-mate
\* with one step left beside an opponent
StaleScene ==
    LET base == Scene("human", "human", 1, "HOME", 4, 3,
                      { <<1, 5, 5, "STANDING">>, <<2, 7, 5, "STANDING">>,
                        <<13, 8, 5, "STANDING">> },
                      carried(Pos(5, 5), 1))
    IN [base EXCEPT !.players[1].movementRemaining = 0, !.players[1].hasMoved = TRUE,
                    !.players[2].movementRemaining = 1, !.players[2].hasMoved = TRUE]

\* the paths of two actions the tree can hold below root: a child of the root
\* and a child stored when that child was expanded, here a move and a hand-off
storedHandOffs(root) ==
    UNION { { <<a, b>> : b \in { c \in UNION { getAvailableActions(o.s) :
                                                 o \in call("executeAction", <<root, a>>) } :
                                  c.type = "HAND_OFF" } } :
            a \in { c \in getAvailableActions(root) : c.type = "MOVE" } }

InitStale ==
    /\ state = StaleScene
    /\ \E path \in storedHandOffs(StaleScene) :
          sim = [pc |-> "replay", root |-> StaleScene, path |-> path, at |-> 1,
                 children |-> {}, legal |-> TRUE]
    /\ last = [kind |-> "init", action |-> NoAction, result |-> "ok", endTurns |-> 0,
               prev |-> state]

NextStale ==
    \/ ReplayStep
    \/ ExpandLeaf

SpecStale == InitStale /\ [][NextStale]_vars

(***************************************************************************)
(* The expansion of one tree node (mcts.cpp, expand): the legal actions of *)
(* the node's state, the configuration, and the order std::sort leaves the *)
(* actions in when they are sorted by prior, which can be any order.       *)
(***************************************************************************)
\* legal actions of the expanded node
MaxActions == 4
\* largest maxChildren configured
MaxCap == 3

\* n different actions of one figure
someActions(n) == [i \in 1..n |-> Action("MOVE", 1, -1, Pos(i, 0))]

\* the orders of the actions
orders(actions) ==
    { q \in [DOMAIN actions -> { actions[i] : i \in DOMAIN actions }] :
        \A i, j \in DOMAIN actions : i # j => q[i] # q[j] }

InitExpand ==
    /\ state = ReplayScene
    /\ \E n \in 1..MaxActions, policy \in BOOLEAN, maxChildren \in 0..MaxCap :
          \E ranked \in orders(someActions(n)) :
             sim = [pc |-> "replayed", actions |-> someActions(n), ranked |-> ranked,
                    config |-> MCTSConfig(policy, maxChildren, 1), children |-> << >>]
    /\ last = [kind |-> "init", action |-> NoAction, result |-> "ok", endTurns |-> 0,
               prev |-> state]

ExpandNode ==
    /\ sim.pc = "replayed"
    /\ sim' = [sim EXCEPT !.pc = "expanded",
                          !.children = expand(sim.actions, sim.config, sim.ranked)]
    /\ UNCHANGED <<state, last>>

NextExpand == ExpandNode

SpecExpand == InitExpand /\ [][NextExpand]_vars

(***************************************************************************)
(* The loops of the two searches against the wall clock (mcts.cpp,         *)
(* macro_mcts.cpp), the tree left out: sim holds the searcher, its         *)
(* iteration limit, the iterations made, the iteration count at which the  *)
(* time budget ran out (-1 before that), and whether search has left its   *)
(* loop.                                                                   *)
(***************************************************************************)
ClockLimits == {3, MaxIterations, 2 * MaxIterations}

InitClock ==
    /\ state = ReplayScene
    /\ \E searcher \in {"MCTSSearch", "MacroMCTSSearch"}, limit \in ClockLimits :
          sim = [searcher |-> searcher, maxIterations |-> limit, iterations |-> 0,
                 elapsedAt |-> -1, returned |-> FALSE, lastIterations |-> 0]
    /\ last = [kind |-> "init", action |-> NoAction, result |-> "ok", endTurns |-> 0,
               prev |-> state]

\* timeBudgetMs have passed since the search started
BudgetElapses ==
    /\ ~sim.returned
    /\ sim.elapsedAt = -1
    /\ sim' = [sim EXCEPT !.elapsedAt = sim.iterations]
    /\ UNCHANGED <<state, last>>

\* one pass of the while loop: the primitive search reads the clock before
\* every 64th iteration and breaks if the budget is used up; the macro search
\* has no such test
LoopPass ==
    /\ ~sim.returned
    /\ sim.iterations < sim.maxIterations
    /\ IF sim.searcher = "MCTSSearch" /\ clockRead(sim.iterations) /\ sim.elapsedAt >= 0
       THEN sim' = [sim EXCEPT !.returned = TRUE, !.lastIterations = sim.iterations]
       ELSE sim' = [sim EXCEPT !.iterations = @ + 1]
    /\ UNCHANGED <<state, last>>

\* the loop condition fails
LoopEnds ==
    /\ ~sim.returned
    /\ sim.iterations >= sim.maxIterations
    /\ sim' = [sim EXCEPT !.returned = TRUE, !.lastIterations = sim.iterations]
    /\ UNCHANGED <<state, last>>

NextClock ==
    \/ BudgetElapses
    \/ LoopPass
    \/ LoopEnds

SpecClock == InitClock /\ [][NextClock]_vars

(***************************************************************************)
(* Properties of the match state.                                          *)
(***************************************************************************)
onPitchIds(s) == { i \in Ids : isOnPitch(s.players[i].state) }

\* C1: no two figures that are standing, prone or stunned occupy the same cell
C1_NoSharedCell ==
    \A i, j \in onPitchIds(state) :
        i # j => state.players[i].position # state.players[j].position

\* C2: after every executed action a carried ball lies on the cell of its carrier
C2_BallWithCarrier ==
    (last.kind = "action" /\ state.ball.isHeld)
        => state.ball.position = state.players[state.ball.carrierId].position

\* C3: whoever carries the ball is standing and on the pitch
C3_CarrierStanding ==
    state.ball.isHeld
        => /\ state.ball.carrierId \in Ids
           /\ state.players[state.ball.carrierId].state = "STANDING"
           /\ posIsOnPitch(state.players[state.ball.carrierId].position)

\* C4: a figure has a position on the pitch exactly when it is standing, prone
\* or stunned; every other figure is at the sentinel (-1, -1)
C4_PositionMatchesState ==
    \A i \in Ids :
        IF isOnPitch(state.players[i].state)
        THEN posIsOnPitch(state.players[i].position)
        ELSE state.players[i].position = OffGrid
C4_Removed ==
    /\ last.kind = "action"
    /\ \E i \in Ids : /\ isOnPitch(last.prev.players[i].state)
                      /\ ~isOnPitch(state.players[i].state)
                      /\ state.players[i].position = OffGrid

C6_TurnoverEndsTurn ==
    (last.kind = "action" /\ last.result = "turnover")
        => /\ state.activeTeam = opponent(last.prev.activeTeam)
           /\ last.endTurns = 1
C6_Turnover ==
    /\ last.kind = "action"
    /\ last.result = "turnover"
    /\ state.activeTeam = opponent(last.prev.activeTeam)

\* C7: an action that does not end in a turnover leaves the active team as it was
C7_NoTurnoverKeepsTeam ==
    (last.kind = "action" /\ last.result # "turnover")
        => state.activeTeam = last.prev.activeTeam
\* C7 as amended: an action other than end_turn that does not end in a turnover
\* leaves the active team as it was
C7_NoTurnoverKeepsTeamUnlessEndTurn ==
    (last.kind = "action" /\ last.result # "turnover" /\ last.action.type # "END_TURN")
        => state.activeTeam = last.prev.activeTeam
C7_Kept ==
    /\ last.kind = "action"
    /\ last.result = "ok"
    /\ last.action.type = "BLOCK"
    /\ state.activeTeam = last.prev.activeTeam

\* C9: when after an executed action the active side's turn number exceeds 8,
\* the phase is half_time in the first half and game_over in the second
C9_HalfOver ==
    (last.kind = "action" /\ getTeamState(state, state.activeTeam).turnNumber > 8)
        => state.phase = IF state.half = 1 THEN "HALF_TIME" ELSE "GAME_OVER"
C9_NinthTurn ==
    /\ last.kind = "action"
    /\ getTeamState(state, state.activeTeam).turnNumber > 8
    /\ state.phase = "GAME_OVER"

EightEach == [HOME |-> 8, AWAY |-> 8]
SevenEach == [HOME |-> 7, AWAY |-> 7]

turnBegins == last.kind = "kickoff" \/ (last.kind = "action" /\ last.endTurns > 0)
flagsReset(s, side) ==
    LET team == getTeamState(s, side)
    IN /\ ~team.blitzUsedThisTurn /\ ~team.passUsedThisTurn
       /\ ~team.foulUsedThisTurn /\ ~team.rerollUsedThisTurn
       /\ \A i \in TeamIds(side) :
             LET p == s.players[i]
             IN /\ ~p.hasMoved /\ ~p.hasActed /\ ~p.usedBlitz
                /\ ~p.lostTacklezones /\ ~p.proUsedThisTurn
                /\ p.movementRemaining = p.stats.movement

\* C10: whenever a side's turn begins, after an end-turn or for the first turn
\* after a kickoff, all its per-turn flags are reset and its stunned figures
\* have turned prone
C10_FlagsResetAtTurnStart ==
    turnBegins
        => /\ flagsReset(state, state.activeTeam)
           /\ last.kind = "action" =>
                 \A i \in TeamIds(state.activeTeam) :
                     last.prev.players[i].state = "STUNNED"
                         => state.players[i].state = "PRONE"

\* C11: an illegal action is returned as a failure, neither success nor
\* turnover, and leaves the whole match state as it was
C11_IllegalActionFails ==
    last.kind = "illegal" => (last.result = "fail" /\ state = last.prev)

\* C12: simulateGame terminates under every dice sequence: every handler it
\* calls returns, so no call of the ball handlers starts from a configuration
\* that an earlier call of the same flight started from (dice that repeat
\* would keep the flight going for ever)
C12_NoCallRecurs ==
    ~(last.kind = "mark" /\ sim.pending # "none" /\ last.prev = state /\ last.call = sim)

\* C23: every resolution of a bouncing ball terminates, whatever the dice: the
\* chain of bounces after failed catches, through throw-ins too, is cut off by
\* the depth cap of 5, so that a flight has no more than the six bounces of
\* depths 0 to 5
C23_BouncesCutOff == last.bounces <= 5 + 1

\* C13: after an executed action, a standing carrier in the opponent's end zone
\* means that its side has gained exactly one point and the phase is touchdown
C13_TouchdownScored ==
    (last.kind = "action" /\ checkTouchdown(state))
        => LET side == teamSide(state.ball.carrierId)
           IN /\ getTeamState(state, side).score = getTeamState(last.prev, side).score + 1
              /\ state.phase = "TOUCHDOWN"
\* C13 as amended: the point is gained in every case; the phase is touchdown
\* unless the action also ended the last turn of the half, and then it is
\* half_time or game_over
C13_TouchdownScoredOrHalfOver ==
    (last.kind = "action" /\ checkTouchdown(state))
        => LET side == teamSide(state.ball.carrierId)
           IN /\ getTeamState(state, side).score = getTeamState(last.prev, side).score + 1
              /\ state.phase = IF ~checkHalfOver(state) THEN "TOUCHDOWN"
                               ELSE IF state.half = 1 THEN "HALF_TIME" ELSE "GAME_OVER"
C13_Scored ==
    /\ last.kind = "action"
    /\ checkTouchdown(state)
    /\ state.phase = "TOUCHDOWN"

\* C14: in every reachable state both teams have rerolls >= 0, turn_number >= 0
\* and score >= 0
C14_CountersNonNegative ==
    \A side \in {"HOME", "AWAY"} :
        LET team == getTeamState(state, side)
        IN team.rerolls >= 0 /\ team.turnNumber >= 0 /\ team.score >= 0
C14_RollWithoutRerolls ==
    /\ last.kind = "action"
    /\ last.result = "turnover"
    /\ last.action.type = "MOVE"
    /\ getTeamState(last.prev, last.prev.activeTeam).rerolls = 0
    /\ getTeamState(state, last.prev.activeTeam).rerolls = 0

\* C15: between two consecutive starts of a team's turn its reroll pool is
\* decremented at most once, and by exactly 1
C15_OneRerollPerTurn ==
    \A side \in {"HOME", "AWAY"} : sim.spent[side] <= 1

blitzOffered(s) == { a \in getAvailableActions(s) : a.type = "BLITZ" }
blitzExecuted ==
    last.kind = "action" /\ last.action.type = "BLITZ" /\ last.result # "exception"
\* the blitz was not wasted by the figure's trait check: the dispatch was reached
blitzResolved == blitzExecuted /\ state.players[last.action.playerId].usedBlitz
sameTurn == last.endTurns = 0 /\ state.activeTeam = last.prev.activeTeam

\* C16: once a blitz has been resolved in a team's turn, the enumerator yields no
\* blitz action for that team for the rest of the turn
C16_OneBlitzPerTurn ==
    (blitzExecuted /\ sameTurn) => blitzOffered(state) = {}

\* a figure of the side to move carries the mark of a blitz of this turn (the
\* marks are cleared when the side's turn begins)
blitzedThisTurn == \E i \in TeamIds(state.activeTeam) : state.players[i].usedBlitz

\* C16 (amended): once a blitz has got past the figure's trait check and has been
\* resolved, the enumerator yields no blitz action for that team for the rest of
\* the turn
C16_OneResolvedBlitzPerTurn ==
    ((blitzResolved /\ sameTurn) \/ blitzedThisTurn) => blitzOffered(state) = {}

\* a blitz was resolved, its side plays on, and other figures are still offered
\* actions against standing opponents
C16_BlitzResolved ==
    /\ blitzResolved
    /\ sameTurn
    /\ state.phase = "PLAY"
    /\ blitzOffered(last.prev) # {}
    /\ \E a \in getAvailableActions(state) :
          a.type = "BLOCK" /\ a.playerId # last.action.playerId

\* C17: after any kickoff from a set-up half the ball is held by a figure or lies
\* on an on-pitch cell; it is never left off the pitch
C17_BallInPlayAfterKickoff ==
    last.kind = "kickoff"
    => (state.ball.isHeld /\ state.ball.carrierId \in Ids)
       \/ (~state.ball.isHeld /\ posIsOnPitch(state.ball.position))

\* a full kickoff in which a figure under the ball spent a team reroll on the
\* catch and still dropped it: the ball has bounced and lies on the ground
C17_CatchFailed ==
    /\ last.kind = "kickoff"
    /\ sim.useFullKickoff
    /\ ~state.ball.isHeld
    /\ \E side \in {"HOME", "AWAY"} :
          sim.spent[side] > 0 /\ getTeamState(state, side).rerolls < 3

\* C29 as stated: in the full kickoff no kickoff event is resolved on a
\* touchback: the receiving side is in its first turn and the figure given the
\* ball stands
C29_TouchbackSkipsEvent ==
    (last.kind = "kickoff" /\ sim.touchback)
    => /\ getTeamState(state, state.activeTeam).turnNumber = 1
       /\ state.ball.isHeld
       /\ state.players[state.ball.carrierId].state = "STANDING"

\* C29, amended: the full kickoff rolls and resolves the kickoff event on every
\* kick; on a touchback a figure of the receiving side is given the ball before
\* the event and holds it when the kickoff ends, whatever the event did
C29_TouchbackHolder ==
    (last.kind = "kickoff" /\ sim.touchback)
    => /\ state.phase = "PLAY"
       /\ state.ball.isHeld
       /\ state.ball.carrierId \in TeamIds(state.activeTeam)
       /\ state.activeTeam = opponent(state.kickingTeam)

\* a touchback after which the riot of the kickoff table has moved the turn
\* counter of the receiving side, whose figure holds the ball
C29_RiotAfterTouchback ==
    /\ last.kind = "kickoff" /\ sim.touchback
    /\ sim.riot
    /\ state.ball.isHeld

(***************************************************************************)
(* Properties of the tree search.                                          *)
(***************************************************************************)
returnedRuns ==
    { r \in SearchRuns : sim.searcher = "MCTSSearch" /\ sim.runs[r].returned }
\* the runs of either searcher that have returned
returnedSearches == { r \in SearchRuns : sim.runs[r].returned }
\* the legal set of the searched state, as the search enumerated it
legalSet == SeqToSet(sim.actions)
isMostVisited(run) ==
    \E i \in DOMAIN run.children :
        /\ run.children[i].action = run.action
        /\ \A j \in DOMAIN run.children : run.children[j].visits <= run.children[i].visits

\* C19: the action a primitive search returns is the action of a root child with
\* the most visits of all root children, and is a member of the legal set of the
\* searched state
C19_MostVisitedLegal ==
    \A r \in returnedRuns :
        /\ sim.runs[r].action \in legalSet
        /\ isMostVisited(sim.runs[r])

\* C19 (amended): the returned action is a member of the legal set; when two or
\* more actions are legal it is the action of a root child with the most visits
\* of all root children, and a single legal action is returned without a tree
C19_MostVisitedLegalIfSearched ==
    \A r \in returnedRuns :
        /\ sim.runs[r].action \in legalSet
        /\ IF Cardinality(legalSet) >= 2
           THEN isMostVisited(sim.runs[r])
           ELSE sim.runs[r].children = << >> /\ legalSet = { sim.runs[r].action }

\* a search has returned after three iterations that left its root children
\* with different numbers of visits
C19_Searched ==
    \E r \in returnedRuns :
        /\ sim.runs[r].iterations >= 3
        /\ \E i, j \in DOMAIN sim.runs[r].children :
              sim.runs[r].children[i].visits > sim.runs[r].children[j].visits

C21_SingleActionNoSearch ==
    \A r \in returnedSearches :
        Len(sim.legal) = 1
        => /\ sim.runs[r].action = sim.legal[1]
           /\ sim.runs[r].iterations = 0
           /\ sim.runs[r].lastIterations = 0

\* C21 (amended): a searcher whose own enumerator yields exactly one choice, one
\* legal action for the primitive searcher and one macro for the macro searcher,
\* returns that choice at once and reports zero iterations
C21_SingleChoiceNoSearch ==
    \A r \in returnedSearches :
        Len(sim.actions) = 1
        => /\ sim.runs[r].action = sim.actions[1]
           /\ sim.runs[r].iterations = 0
           /\ sim.runs[r].children = << >>
           /\ sim.runs[r].lastIterations = 0

\* a searcher that reported iterations for its search before has returned the
\* one choice it had
C21_SingleChoiceReturned ==
    /\ sim.previous > 0
    /\ Len(sim.actions) = 1
    /\ returnedSearches = SearchRuns

\* visits of the most-visited root child
mostVisits(run) ==
    IF run.children = << >> THEN 0
    ELSE run.children[mostVisitedChild(run.children)].visits

carrierFailedDodge ==
    LET a == last.action
        before == last.prev
    IN /\ last.kind = "action" /\ a.type = "MOVE" /\ last.result = "turnover"
       /\ before.ball.isHeld /\ before.ball.carrierId = a.playerId
       /\ before.players[a.playerId].state = "STANDING"
       /\ before.players[a.playerId].movementRemaining >= 1
       /\ ~hasBigGuySkill(before, a.playerId)
       /\ countTacklezones(before, before.players[a.playerId].position,
                          teamSide(a.playerId), -1) > 0
       /\ Cardinality(AdjSet(a.target)) = 8
       /\ \A q \in Ids \ {a.playerId} :
             before.players[q].state = "STANDING"
             => before.players[q].position \notin AdjSet(a.target)

\* C25: a ball carrier who fails a dodge stepping from F to T makes a turnover,
\* lies at T, and has dropped the ball at T whatever armour and injury bring:
\* the figure holds it no longer and its bounce starts from T, so that here,
\* where one bounce is all there can be, it lies beside T
C25_BallDroppedAtDestination ==
    carrierFailedDodge
    => LET id == last.action.playerId
           to == last.action.target
       IN /\ isOnPitch(state.players[id].state)
             => (state.players[id].position = to /\ state.players[id].state # "STANDING")
          /\ ~(state.ball.isHeld /\ state.ball.carrierId = id)
          /\ ~state.ball.isHeld
          /\ state.ball.position \in AdjSet(to)

\* C27: no handler below the action resolver ends the turn: the dispatch of an
\* action other than end_turn leaves the side to move and both turn numbers as
\* they were, and only the resolver's step after a turnover switches sides. So
\* an executed action other than end_turn that is no turnover leaves all three
\* unchanged, and one that is a turnover shows exactly one switch: the other
\* side is to move, its turn number is one more, the first side's is unchanged
C27_OnlyPostStepSwitches ==
    (last.kind = "action" /\ last.action.type # "END_TURN")
    => LET before == last.prev
           was == before.activeTeam
       IN IF last.result = "turnover"
          THEN /\ state.activeTeam = opponent(was)
               /\ getTeamState(state, opponent(was)).turnNumber
                     = getTeamState(before, opponent(was)).turnNumber + 1
               /\ getTeamState(state, was).turnNumber = getTeamState(before, was).turnNumber
          ELSE /\ state.activeTeam = was
               /\ state.homeTeam.turnNumber = before.homeTeam.turnNumber
               /\ state.awayTeam.turnNumber = before.awayTeam.turnNumber

\* a failed dodge or go-for-it has made the turnover that the resolver answered
\* by switching sides
C27_FellAndSwitched ==
    /\ last.kind = "action" /\ last.action.type = "MOVE" /\ last.result = "turnover"
    /\ state.players[last.action.playerId].state \in {"PRONE", "STUNNED"}
    /\ state.activeTeam = opponent(last.prev.activeTeam)

\* C28: the enumerator yields no plain BLOCK for a figure of the side to move
\* whose hasMoved flag is set.
C28_NoBlockAfterMove ==
    \A id \in TeamIds(state.activeTeam) :
        (/\ state.phase = "PLAY"
         /\ playerIsOnPitch(state, id)
         /\ playerCanAct(state, id)
         /\ state.players[id].hasMoved)
        => ~\E a \in figureActions(state, id) : a.type = "BLOCK" /\ a.playerId = id

(***************************************************************************)
(* Properties of the blitz.                                                *)
(***************************************************************************)
\* C24: the resolution of a blitz terminates whatever the dice: every call of
\* resolveMoveStep the approach loop makes moves the blitzer, or fails, or ends
\* the loop, so the loop makes only a bounded number of calls
C24_StepMovesOrEnds ==
    [][sim'.steps > sim.steps
       => \/ state'.players[sim'.action.playerId].position
                # state.players[sim'.action.playerId].position
          \/ sim'.pc = "returned"]_vars

\* C26: a blitz the enumerator yields, none of whose move-steps fails or is
\* trapped, ends with the block thrown at the target
C26_BlitzThrowsBlock ==
    (sim.pc = "returned" /\ sim.clean) => sim.blocked

\* C30: a figure trapped by tentacles stays in its cell without turnover and
\* its movement is over: no move-step is made for it after that in the same
\* action, the rest of a blitz's approach included
C30_TrapEndsMovement == sim.afterTrap = 0

RECURSIVE joinedWithin(_, _, _, _)
joinedWithin(s, frontier, seen, k) ==
    IF k <= 0 \/ frontier = {} THEN seen
    ELSE LET next == { c \in UNION { AdjSet(f) : f \in frontier } \ seen :
                         getPlayerAtPosition(s, c) = 0 }
         IN joinedWithin(s, next, seen \cup next, k - 1)

\* the length a path of the figure may have: what is left of its movement and
\* the go-for-it allowance, less 3 once if it must first stand up
pathBudget(s, id) ==
    s.players[id].movementRemaining
    + (IF "Sprint" \in s.players[id].skills THEN 3 ELSE 2)
    - (IF s.players[id].state = "PRONE" /\ "JumpUp" \notin s.players[id].skills
       THEN 3 ELSE 0)

\* C31: for a figure that stands or lies prone the pathfinder answers yes if and
\* only if an empty on-pitch cell beside the target is joined to the figure's
\* cell by a path through unoccupied cells no longer than its movement left plus
\* the go-for-it allowance, less a single 3 if it starts prone without JumpUp
C31_ReachableIffPath ==
    (sim.pc = "answered" /\ state.players[sim.id].state \in {"STANDING", "PRONE"})
    => (sim.answer
        <=> \E c \in AdjSet(sim.target) :
               /\ getPlayerAtPosition(state, c) = 0
               /\ c \in joinedWithin(state, { state.players[sim.id].position },
                                     { state.players[sim.id].position },
                                     pathBudget(state, sim.id)))

(***************************************************************************)
(* Properties of the Pro reroll.                                           *)
(***************************************************************************)
\* C32: between two starts of its side's turn a figure attempts its Pro reroll
\* at most once, whatever the rolls are for, and the attempt marks it used
\* whatever the Pro die shows
C32_ProOncePerTurn ==
    \A i \in Ids :
        /\ state.players[i].proAttempts <= 1
        /\ state.players[i].proAttempts > 0 => state.players[i].proUsedThisTurn

\* the figure attempted its Pro reroll in one action and failed a roll in the
\* next action of the same turn
C32_ProSpentThenFailed ==
    /\ last.kind = "action" /\ last.action.playerId = 1
    /\ last.result = "turnover"
    /\ last.prev.players[1].proAttempts = 1
    /\ last.prev.activeTeam = "HOME"
    /\ state.players[1].proAttempts = 1

(***************************************************************************)
(* Properties of the ball in play.                                         *)
(***************************************************************************)
\* the ball is in play: held by a figure that is on the pitch, or lying on a
\* cell of the pitch; its position is a cell of the pitch either way
ballInPlay(s) ==
    /\ posIsOnPitch(s.ball.position)
    /\ s.ball.isHeld => (s.ball.carrierId \in Ids /\ playerIsOnPitch(s, s.ball.carrierId))

C34_AtMostTwoBlocks ==
    /\ sim.blocks <= 2
    /\ sim.blocks = 2 => sim.sideBySide

\* the second block has been made and has put the defender down
C34_SecondBlockThrown ==
    /\ sim.pc = "returned" /\ sim.blocks = 2
    /\ state.players[13].state # "STANDING"
    /\ state.players[1].hasActed

(***************************************************************************)
(* Properties of the crowd.                                                *)
(***************************************************************************)
\* the figures that had no pushback cell on the pitch when the last action's
\* block pushed them: the target seen from the attacker, and the figure on the
\* target's pushback cell seen from the target
noCellFor(before, a) ==
    LET att == before.players[a.playerId].position
        def == before.players[a.targetId].position
        squares == getPushbackSquares(att, def)
        behind == { id \in Ids : /\ playerIsOnPitch(before, id)
                                 /\ Len(squares) > 0
                                 /\ \A i \in 1..Len(squares) :
                                       getPlayerAtPosition(before, squares[i]) # 0
                                 /\ before.players[id].position = squares[1]
                                 /\ getPushbackSquares(def, squares[1]) = << >> }
    IN (IF squares = << >> THEN {a.targetId} ELSE {}) \cup behind

\* C35: a figure pushed with no pushback cell on the pitch ends off the pitch
\* and ko or worse, never standing, prone or stunned
C35_CrowdKeepsThem ==
    (last.kind = "action" /\ last.action.type = "BLOCK" /\ distanceTo(
         last.prev.players[last.action.playerId].position,
         last.prev.players[last.action.targetId].position) = 1)
    => \A id \in noCellFor(last.prev, last.action) :
          state.players[id].position # last.prev.players[id].position
          => /\ state.players[id].position = OffGrid
             /\ state.players[id].state \in {"KO", "INJURED", "DEAD"}

\* a Thick Skull defender on the last column has been pushed into the crowd
\* and the attacker stands where he stood
C35_SurfedToKo ==
    /\ last.kind = "action" /\ last.action.type = "BLOCK" /\ last.action.targetId = 13
    /\ "ThickSkull" \in last.prev.players[13].skills
    /\ last.prev.players[13].position = Pos(25, 7)
    /\ state.players[13].position = OffGrid /\ state.players[13].state = "KO"
    /\ state.players[1].position = Pos(25, 7)

\* the chained figure on the last column has gone to the crowd
C35_ChainSurfed ==
    /\ last.kind = "action" /\ last.action.type = "BLOCK"
    /\ last.prev.players[15].position = Pos(25, 7)
    /\ state.players[15].position = OffGrid
    /\ state.players[13].position = Pos(25, 7)

(***************************************************************************)
(* Properties of the replay.                                               *)
(***************************************************************************)
\* C36: every stored action a replay executes is a legal action of the state
\* it is executed in
C36_ReplayedActionsLegal == sim.legal

(***************************************************************************)
(* Properties of the expansion.                                            *)
(***************************************************************************)
\* C37: with a maximum-children cap set, an expanded node has no more children
\* than the cap
C37_ChildrenWithinCap ==
    (sim.pc = "expanded" /\ sim.config.maxChildren > 0)
    => Len(sim.children) <= sim.config.maxChildren

(***************************************************************************)
(* Properties of the search budget.                                        *)
(***************************************************************************)
\* C38: a search makes no more iterations than its limit, and at most 64
\* after its time budget has run out
C38_StopsOnBudget ==
    /\ sim.iterations <= sim.maxIterations
    /\ sim.elapsedAt >= 0 => sim.iterations - sim.elapsedAt <= TimeCheckPeriod

(***************************************************************************)
(* Properties of the visit counts.                                         *)
(***************************************************************************)
RECURSIVE visitSum(_, _)
visitSum(children, n) ==
    IF n = 0 THEN 0 ELSE children[n].visits + visitSum(children, n - 1)

\* C39: in a primitive search the visit counts of the root's children sum to
\* the root's count less one, and to the iterations that were not skipped
C39_VisitsAddUp ==
    (sim.searcher = "MCTSSearch" /\ sim.pc # "called")
    => \A r \in SearchRuns :
          LET run == sim.runs[r]
              sum == visitSum(run.children, Len(run.children))
          IN /\ sum = run.rootVisits - 1
             /\ sum = run.iterations - run.skipped

\* a primitive search has returned after iterations of which one was skipped
C39_SearchedAndSkipped ==
    /\ sim.searcher = "MCTSSearch"
    /\ \E r \in SearchRuns :
          /\ sim.runs[r].returned /\ sim.runs[r].skipped >= 1
          /\ sim.runs[r].rootVisits >= 3

(***************************************************************************)
(* Properties of the pass and the hand-off.                                *)
(***************************************************************************)
\* the ball is in the hands of a standing figure of the side on the pitch
heldStandingBy(s, side) ==
    /\ s.ball.isHeld
    /\ s.ball.carrierId \in Ids
    /\ teamSide(s.ball.carrierId) = side
    /\ s.players[s.ball.carrierId].state = "STANDING"
    /\ posIsOnPitch(s.players[s.ball.carrierId].position)

\* C40: after a pass or hand-off that is no turnover a standing figure of the
\* acting side on the pitch holds the ball
C40_PassKeepsBall ==
    (last.kind = "action" /\ last.action.type \in {"PASS", "HAND_OFF"}
        /\ last.result # "turnover")
    => heldStandingBy(state, teamSide(last.action.playerId))

====
